---- MODULE Spec2Model ----
(***************************************************************************)
(* Debug-trace subsystem of the DOSBox Staging fork: the trace activation  *)
(* state machine (game_trace.cpp), the EXEC logger and the file-I/O logger *)
(* (exec_logger.cpp), as one state machine.  Every entry point the host    *)
(* emulator calls is one action; the log sink is the sequence of lines     *)
(* written so far.                                                         *)
(***************************************************************************)
EXTENDS Integers, Sequences, FiniteSets

(***************************************************************************)
(* Bounds of the model (not program constants).                            *)
(***************************************************************************)
\* The steady clock is read as a logical clock 0..MaxClock.
MaxClock == 2
\* No entry point is called that would take the sink past this many lines:
\* MaxLog in the lifecycle specification, MaxNestLog in the specification of
\* loads and terminations, MaxIOLog in the one with file I/O.
MaxLog == 5
MaxNestLog == 7
\* At most MaxResident terminate-and-stay-resident exits are counted.
MaxResident == 1
MaxIOLog == 3
\* The instruction specification reports at most MaxInstr instructions and
\* draws the sample rate from -1..MaxRate.
MaxInstr == 6
MaxRate == 3
\* The interrupt specification draws exclusion lists of at most MaxExclLen
\* characters and stops at MaxIntLog lines.
MaxExclLen == 4
MaxIntLog == 2
\* The registry specification stops at MaxFileLog lines, the read-result
\* specification at MaxReadLog.
MaxFileLog == 3
MaxReadLog == 4
\* The specification of the activation cycle stops at MaxCycleLog lines.
MaxCycleLog == 7
\* The read-request specification stops at MaxRequestLog lines.
MaxRequestLog == 3
\* The opcode-fetch specification stops at MaxFetchLog lines.
MaxFetchLog == 3
\* The video specification stops at MaxVideoLog lines.
MaxVideoLog == 3
\* The specification of all entry points stops at MaxEventLog lines.
MaxEventLog == 2
\* The specification of the calls made after Shutdown stops at MaxLateLog
\* lines.
MaxLateLog == 3

VARIABLES
    g_trace_enabled,            \* game_trace.cpp:26
    g_debugtrace_system_ready,  \* game_trace.cpp:27
    g_config,                   \* game_trace.cpp:46
    g_log_fp,                   \* game_trace.cpp:49  "null" | "stdout" | "file"
    g_own_file,                 \* game_trace.cpp:50
    g_epoch,                    \* game_trace.cpp:53
    g_epoch_set,                \* game_trace.cpp:54
    s_exec_depth,               \* game_trace.cpp:60
    s_handle_map,               \* exec_logger.cpp:93
    s_pending_read,             \* exec_logger.cpp:98-104
    now,                        \* std::chrono::steady_clock::now()
    log,                        \* the lines fputs has written, oldest first
    s_sample_counter,           \* instruction_logger.cpp:26
    instr_events,               \* instructions the CPU core has reported
    int_event,                  \* the INT the CPU core dispatched last, with
                                \* reg_ah and reg_al at that moment
    file_event,                 \* the arguments of the DOS kernel's latest
                                \* file notification
    read_trail,                 \* the handle of the DOS kernel's latest read
                                \* request, and whether a read result has
                                \* been reported since
    resident_exits,             \* the terminate-and-stay-resident exits the
                                \* DOS kernel has dispatched since the
                                \* latest activation banner
    shell_interactive,          \* what DOS_ShellIsInteractive() returns
    host,                       \* where the host emulator is in its session
    last_event                  \* the host's latest step: the entry point it
                                \* called, a clock tick or a shell switch

vars == <<g_trace_enabled, g_debugtrace_system_ready, g_config, g_log_fp,
          g_own_file, g_epoch, g_epoch_set, s_exec_depth, s_handle_map,
          s_pending_read, s_sample_counter, instr_events, int_event,
          file_event, read_trail, now, log,
          resident_exits, shell_interactive, host, last_event>>

(***************************************************************************)
(* Configuration.                                                          *)
(***************************************************************************)
\* struct TraceConfig with its default member initialisers.  The option
\* trace_on_interactive_exec_only is read by exec_logger.cpp through an
\* accessor whose definition is not part of the sources; it is carried here
\* as one more field of the snapshot, with the documented default.
DefaultConfig ==
    [ enabled                        |-> FALSE,
      logfile                        |-> "game_trace.log",
      trace_instructions             |-> TRUE,
      trace_interrupts               |-> TRUE,
      trace_file_io                  |-> TRUE,
      trace_video_modes              |-> TRUE,
      auto_trace_on_exec             |-> TRUE,
      trace_on_interactive_exec_only |-> TRUE,
      exclude_interrupts             |-> <<"0", "8", ",", "1", "C">>,
      file_read_hex_dump             |-> 64,
      instruction_sample_rate        |-> 1 ]

\* The [debugtrace] sections the lifecycle specification draws from: every
\* combination of the three options that steer activation.  The sink is a
\* file when fopen succeeds and the console when it fails.
LifecycleSections ==
    { [DefaultConfig EXCEPT !.enabled = e,
                            !.auto_trace_on_exec = a,
                            !.trace_on_interactive_exec_only = i] :
        e \in BOOLEAN, a \in BOOLEAN, i \in BOOLEAN }

\* init_debugtrace_settings: the whole snapshot is replaced by the section.
init_debugtrace_settings(section) == section

DEBUGTRACE_AutoTraceOnExec(cfg) == cfg.auto_trace_on_exec

DEBUGTRACE_TraceOnInteractiveExecOnly(cfg) == cfg.trace_on_interactive_exec_only

(***************************************************************************)
(* Epoch and elapsed time.                                                 *)
(***************************************************************************)
\* An epoch stored without raising g_epoch_set.
set_epoch_now_FlagUnset(t) == [epoch |-> t, epoch_set |-> FALSE]

\* set_epoch_now at clock reading t.
set_epoch_now(t) == [epoch |-> t, epoch_set |-> TRUE]

\* The same without the g_epoch_set test.
GetElapsedMs_IgnoringEpochSet(epoch_set, epoch, t) == t - epoch

DEBUGTRACE_GetElapsedMs(epoch_set, epoch, t) ==
    IF ~epoch_set THEN 0 ELSE t - epoch

\* The value DEBUGTRACE_GetElapsedMs() returns in the current state.
ElapsedNow == DEBUGTRACE_GetElapsedMs(g_epoch_set, g_epoch, now)

(***************************************************************************)
(* The sink.  A line is a record: its kind (the fixed literal label), the  *)
(* elapsed value of its [T+...ms] prefix (-1 for the marker lines, which   *)
(* carry none), and the fields the format string prints.                   *)
(***************************************************************************)
NoLine ==
    [kind |-> "", t |-> -1, name |-> "", handle |-> -1, num |-> -1,
     depth |-> -1, ah |-> -1, al |-> -1, bytes |-> -1, mode |-> "",
     old_desc |-> "", new_desc |-> "", addrs |-> <<>>, sink |-> "stdout"]

\* "[debugtrace] === ... ===": a marker line, without elapsed time.
Marker(kind) == [NoLine EXCEPT !.kind = kind]

\* A sink that puts the new line in front of the old ones.
DEBUGTRACE_Write_Prepend(fp, out, line) ==
    <<[line EXCEPT !.sink = IF fp = "file" THEN "file" ELSE "stdout"]>> \o out

\* DEBUGTRACE_Write: fp = g_log_fp ? g_log_fp : stdout; fputs; fputc; fflush.
DEBUGTRACE_Write(fp, out, line) ==
    Append(out, [line EXCEPT !.sink = IF fp = "file" THEN "file" ELSE "stdout"])

(***************************************************************************)
(* Exec-depth tracking.                                                    *)
(***************************************************************************)
\* An activation that keeps the epoch of an earlier activation.
ActivateTrace_KeepsOldEpoch(ts, t) ==
    IF ts.enabled
        THEN ts
        ELSE [enabled   |-> TRUE,
              epoch     |-> IF ts.epoch_set THEN ts.epoch ELSE t,
              epoch_set |-> TRUE]

\* DEBUGTRACE_ActivateTrace on the triple it reads and writes.
DEBUGTRACE_ActivateTrace(ts, t) ==
    IF ts.enabled
        THEN ts
        ELSE [enabled   |-> TRUE,
              epoch     |-> set_epoch_now(t).epoch,
              epoch_set |-> set_epoch_now(t).epoch_set]

\* A push that forgets to count.
OnExecDepthPush_NoIncrement(enabled, depth) == depth

\* DEBUGTRACE_OnExecDepthPush: the new s_exec_depth.
DEBUGTRACE_OnExecDepthPush(enabled, depth) ==
    IF enabled THEN depth + 1 ELSE depth


(***************************************************************************)
(* File-I/O logger helpers.                                                *)
(***************************************************************************)
\* The handles and filenames the host passes in.  DOS_FILES comes from
\* dos/dos.h, which is not part of the sources; exec_logger.cpp:152 gives
\* its value ("DOS file handles are 0-254 (DOS_FILES - 1)").
DOS_FILES == 255

EmptyHandleMap == [h \in {} |-> ""]

NoPendingRead ==
    [active |-> FALSE, handle |-> 0, requested |-> 0, ds_seg |-> 0, dx_off |-> 0]

lookup_filename(map, handle) ==
    IF handle \in DOMAIN map THEN map[handle] ELSE "<unknown>"

\* s_handle_map[handle] = filename
MapPut(map, handle, filename) ==
    [h \in DOMAIN map \cup {handle} |->
        IF h = handle THEN filename ELSE map[h]]

\* A registration that keeps the name of an earlier open of the handle.
RecordHandle_InsertOnly(map, handle, filename) ==
    IF handle >= DOS_FILES \/ handle \in DOMAIN map
        THEN map
        ELSE IF filename # "" THEN MapPut(map, handle, filename) ELSE map

\* A range test that lets the handle DOS_FILES itself through.
RecordHandle_OffByOne(map, handle, filename) ==
    IF handle > DOS_FILES
        THEN map
        ELSE IF filename # "" THEN MapPut(map, handle, filename) ELSE map

\* FileIOLogger_RecordHandle: the new s_handle_map.
FileIOLogger_RecordHandle(map, handle, filename) ==
    IF handle >= DOS_FILES
        THEN map
        ELSE IF filename # "" THEN MapPut(map, handle, filename) ELSE map

\* No INT dispatched yet.
NoInterrupt == [num |-> -1, ah |-> -1, al |-> -1]
\* No file notification yet.
NoFileEvent ==
    [handle |-> -1, name |-> "", bytes |-> -1, seg |-> -1, off |-> -1]
\* No read requested yet.
NoReadTrail == [handle |-> -1, answered |-> FALSE]

(***************************************************************************)
(* The state after static initialisation, before the host calls anything.  *)
(***************************************************************************)
Init ==
    /\ g_trace_enabled = FALSE
    /\ g_debugtrace_system_ready = FALSE
    /\ g_config = DefaultConfig
    /\ g_log_fp = "null"
    /\ g_own_file = FALSE
    /\ g_epoch = 0
    /\ g_epoch_set = FALSE
    /\ s_exec_depth = 0
    /\ s_handle_map = EmptyHandleMap
    /\ s_pending_read = NoPendingRead
    /\ s_sample_counter = 0
    /\ instr_events = 0
    /\ int_event = NoInterrupt
    /\ file_event = NoFileEvent
    /\ read_trail = NoReadTrail
    /\ now = 0
    /\ log = <<>>
    /\ resident_exits = 0
    /\ shell_interactive \in BOOLEAN
    /\ host = "start"
    /\ last_event = "none"

\* The logger state that only the file-I/O entry points touch.
fileio_vars == <<s_handle_map, s_pending_read>>
\* The sink's handle.
sink_vars == <<g_log_fp, g_own_file>>
\* The epoch.
epoch_vars == <<g_epoch, g_epoch_set>>
\* The sampler's counter and what the CPU core and the DOS kernel have
\* reported.
instr_vars ==
    <<s_sample_counter, instr_events, int_event, file_event, read_trail>>

(***************************************************************************)
(* Init / Shutdown.  The host calls DEBUGTRACE_Init once, after the config *)
(* sections have been applied, and DEBUGTRACE_Shutdown once, at the end of *)
(* the session; the [debugtrace] section is registered before either.      *)
(***************************************************************************)
\* The FILE* that DEBUGTRACE_Init leaves in g_log_fp; fopen_ok is fopen's
\* outcome.
OpenLogFile(cfg, fopen_ok) ==
    IF cfg.logfile = "stdout" \/ cfg.logfile = ""
        THEN "stdout"
        ELSE IF fopen_ok THEN "file" ELSE "stdout"

DEBUGTRACE_Init(section, fopen_ok) ==
    /\ host = "start"
    /\ host' = "running"
    /\ last_event' = "Init"
    /\ g_config' = init_debugtrace_settings(section)
    /\ IF ~g_config'.enabled
          THEN UNCHANGED <<g_trace_enabled, g_debugtrace_system_ready,
                           sink_vars, epoch_vars, fileio_vars, log>>
          ELSE /\ g_log_fp' = OpenLogFile(g_config', fopen_ok)
               /\ g_own_file' = (g_log_fp' = "file")
               /\ IF ~g_config'.auto_trace_on_exec
                     THEN /\ g_epoch' = set_epoch_now(now).epoch
                          /\ g_epoch_set' = set_epoch_now(now).epoch_set
                          /\ g_trace_enabled' = TRUE
                          /\ log' = DEBUGTRACE_Write(g_log_fp', log,
                                                     Marker("STARTED"))
                     ELSE UNCHANGED <<epoch_vars, g_trace_enabled, log>>
               /\ g_debugtrace_system_ready' = TRUE
               \* FileIOLogger_Init
               /\ s_handle_map' = EmptyHandleMap
               /\ s_pending_read' = [s_pending_read EXCEPT !.active = FALSE]
    /\ UNCHANGED <<s_exec_depth, instr_vars, now, shell_interactive,
                   resident_exits>>

\* A shutdown that leaves the registry as it is.
FileIOLogger_Shutdown_KeepsRegistry ==
    /\ UNCHANGED s_handle_map
    /\ s_pending_read' = [s_pending_read EXCEPT !.active = FALSE]

FileIOLogger_Shutdown ==
    /\ s_handle_map' = EmptyHandleMap
    /\ s_pending_read' = [s_pending_read EXCEPT !.active = FALSE]

DEBUGTRACE_Shutdown ==
    /\ host = "running"
    /\ host' = "stopped"
    /\ last_event' = "Shutdown"
    /\ IF ~g_config.enabled
          THEN UNCHANGED <<g_trace_enabled, g_debugtrace_system_ready,
                           sink_vars, s_exec_depth, fileio_vars, log>>
          ELSE /\ IF g_log_fp = "file"
                     THEN /\ log' = DEBUGTRACE_Write(g_log_fp, log,
                                                     Marker("ENDED"))
                          \* fclose when g_own_file
                          /\ g_log_fp' = "null"
                          /\ g_own_file' = FALSE
                     ELSE UNCHANGED <<log, sink_vars>>
               /\ g_trace_enabled' = FALSE
               /\ g_debugtrace_system_ready' = FALSE
               /\ s_exec_depth' = 0
               /\ FileIOLogger_Shutdown
    /\ UNCHANGED <<g_config, epoch_vars, instr_vars, now, shell_interactive,
                   resident_exits>>

(***************************************************************************)
(* Live settings update: the section's update handler, which the host      *)
(* calls when a [debugtrace] setting changes in a running session.         *)
(***************************************************************************)
notify_debugtrace_setting_updated(section) ==
    /\ host = "running"
    /\ last_event' = "SettingUpdated"
    /\ g_config' = init_debugtrace_settings(section)
    \* Re-evaluate global flag
    /\ g_trace_enabled' = (g_config'.enabled /\ ~g_config'.auto_trace_on_exec)
    /\ UNCHANGED <<g_debugtrace_system_ready, sink_vars, epoch_vars,
                   s_exec_depth, fileio_vars, instr_vars, now, log,
                   shell_interactive, host,
                   resident_exits>>

(***************************************************************************)
(* Program load (INT 21h/AH=4Bh).                                          *)
(***************************************************************************)
\* The gate without the interactive-only test.
MayActivate_IgnoringShell(was_already_active, cfg, interactive) ==
    ~was_already_active /\ DEBUGTRACE_AutoTraceOnExec(cfg)

\* The activation gate of ExecLogger_Log: may DEBUGTRACE_ActivateTrace be
\* called?  interactive is what DOS_ShellIsInteractive() returns.
MayActivate(was_already_active, cfg, interactive) ==
    /\ ~was_already_active
    /\ DEBUGTRACE_AutoTraceOnExec(cfg)
    /\ (DEBUGTRACE_TraceOnInteractiveExecOnly(cfg) => interactive)

\* The lines ExecLogger_Log writes once tracing is on: the PROGRAM EXEC line
\* and, when tracing just turned on, the activation banner.
ExecLines(fp, out, elapsed, filename, was_already_active, cfg) ==
    LET with_exec ==
            DEBUGTRACE_Write(fp, out,
                [NoLine EXCEPT !.kind = "EXEC", !.t = elapsed, !.name = filename])
    IN  IF ~was_already_active /\ DEBUGTRACE_AutoTraceOnExec(cfg)
            THEN DEBUGTRACE_Write(fp, with_exec, Marker("ACTIVATED"))
            ELSE with_exec

ExecLogger_Log(filename) ==
    IF ~g_debugtrace_system_ready
        THEN UNCHANGED <<g_trace_enabled, epoch_vars, s_exec_depth, log>>
        ELSE
            LET was_already_active == g_trace_enabled
                before == [enabled   |-> g_trace_enabled,
                           epoch     |-> g_epoch,
                           epoch_set |-> g_epoch_set]
                ts == IF MayActivate(was_already_active, g_config,
                                     shell_interactive)
                          THEN DEBUGTRACE_ActivateTrace(before, now)
                          ELSE before
            IN  IF ~ts.enabled
                    THEN UNCHANGED <<g_trace_enabled, epoch_vars,
                                     s_exec_depth, log>>
                    ELSE /\ g_trace_enabled' = ts.enabled
                         /\ g_epoch' = ts.epoch
                         /\ g_epoch_set' = ts.epoch_set
                         /\ s_exec_depth' =
                                DEBUGTRACE_OnExecDepthPush(ts.enabled,
                                                           s_exec_depth)
                         /\ log' = ExecLines(g_log_fp, log,
                                DEBUGTRACE_GetElapsedMs(ts.epoch_set, ts.epoch, now),
                                filename, was_already_active, g_config)

DEBUGTRACE_LogExec(filename) ==
    /\ last_event' = "LogExec"
    /\ ExecLogger_Log(filename)
    /\ resident_exits' =
           IF \E i \in (Len(log) + 1)..Len(log') : log'[i].kind = "ACTIVATED"
               THEN 0
               ELSE resident_exits
    /\ UNCHANGED <<g_debugtrace_system_ready, g_config, sink_vars,
                   fileio_vars, instr_vars, now, shell_interactive, host>>

(***************************************************************************)
(* Normal program termination (INT 21h/AH=4Ch, AH=00h).                    *)
(***************************************************************************)
\* The termination handler without its early return.
TerminateIgnored_Never(enabled) == FALSE

\* "Nothing to do if tracing is not currently active".
TerminateIgnored(enabled) == ~enabled

\* The deactivation test off by one.
TopLevelExited_BelowZero(depth) == depth < 0

\* "The top-level traced program has exited": the decremented depth is <= 0.
TopLevelExited(depth) == depth <= 0

\* A termination whose deactivation also resets the file-I/O logger.
OnProgramTerminate_Effect_ClearsFileIO(return_code) ==
    /\ IF TerminateIgnored(g_trace_enabled)
          THEN UNCHANGED <<g_trace_enabled, s_exec_depth, log, fileio_vars>>
          ELSE LET depth == s_exec_depth - 1
                   with_term ==
                       DEBUGTRACE_Write(g_log_fp, log,
                           [NoLine EXCEPT !.kind = "TERMINATED",
                                          !.t = ElapsedNow,
                                          !.num = return_code,
                                          !.depth = depth])
               IN  IF TopLevelExited(depth)
                       THEN /\ s_exec_depth' = 0
                            /\ g_trace_enabled' = FALSE
                            /\ log' = DEBUGTRACE_Write(g_log_fp, with_term,
                                                       Marker("DEACTIVATED"))
                            /\ s_handle_map' = EmptyHandleMap
                            /\ s_pending_read' =
                                   [s_pending_read EXCEPT !.active = FALSE]
                       ELSE /\ s_exec_depth' = depth
                            /\ log' = with_term
                            /\ UNCHANGED <<g_trace_enabled, fileio_vars>>
    /\ UNCHANGED <<g_debugtrace_system_ready, g_config, sink_vars, epoch_vars,
                   instr_vars, now, shell_interactive, host>>

\* What DEBUGTRACE_OnProgramTerminate does to the trace state.
OnProgramTerminate_Effect(return_code) ==
    /\ IF TerminateIgnored(g_trace_enabled)
          THEN UNCHANGED <<g_trace_enabled, s_exec_depth, log>>
          ELSE LET depth == s_exec_depth - 1
                   with_term ==
                       DEBUGTRACE_Write(g_log_fp, log,
                           [NoLine EXCEPT !.kind = "TERMINATED",
                                          !.t = ElapsedNow,
                                          !.num = return_code,
                                          !.depth = depth])
               IN  IF TopLevelExited(depth)
                       THEN /\ s_exec_depth' = 0
                            /\ g_trace_enabled' = FALSE
                            /\ log' = DEBUGTRACE_Write(g_log_fp, with_term,
                                                       Marker("DEACTIVATED"))
                       ELSE /\ s_exec_depth' = depth
                            /\ log' = with_term
                            /\ UNCHANGED g_trace_enabled
    /\ UNCHANGED <<g_debugtrace_system_ready, g_config, sink_vars, epoch_vars,
                   fileio_vars, instr_vars, now, shell_interactive, host>>

DEBUGTRACE_OnProgramTerminate(return_code) ==
    /\ last_event' = "OnProgramTerminate"
    /\ UNCHANGED resident_exits
    /\ OnProgramTerminate_Effect(return_code)

(***************************************************************************)
(* Terminate-and-stay-resident (INT 21h/AH=31h).  The exit functions are   *)
(* dispatched by the host's DOS kernel, which is not part of the sources;  *)
(* game_trace.h states which of them call DEBUGTRACE_OnProgramTerminate:   *)
(* AH=4Ch and AH=00h do, AH=31h must not.                                  *)
(***************************************************************************)
\* A kernel that reports every exit function to the trace.
ExitNotifiesTrace_Always(ah) == TRUE

ExitNotifiesTrace(ah) == ah \in {"4C", "00"}

DOS_TerminateAndStayResident(return_code) ==
    /\ last_event' = "TsrExit"
    /\ resident_exits' = resident_exits + 1
    /\ IF ExitNotifiesTrace("31")
          THEN OnProgramTerminate_Effect(return_code)
          ELSE UNCHANGED <<g_trace_enabled, g_debugtrace_system_ready,
                           g_config, sink_vars, epoch_vars, s_exec_depth,
                           fileio_vars, instr_vars, now, log,
                           shell_interactive, host>>

(***************************************************************************)
(* File I/O: recording a successful open, and the read request.            *)
(***************************************************************************)
DEBUGTRACE_RecordHandleOpen(handle, filename) ==
    /\ last_event' = "RecordHandleOpen"
    /\ file_event' = [NoFileEvent EXCEPT !.handle = handle, !.name = filename]
    /\ s_handle_map' = FileIOLogger_RecordHandle(s_handle_map, handle, filename)
    /\ UNCHANGED <<g_trace_enabled, g_debugtrace_system_ready, g_config,
                   sink_vars, epoch_vars, s_exec_depth, s_pending_read,
                   s_sample_counter, instr_events, int_event,
                   read_trail, now, log,
                   shell_interactive, host,
                   resident_exits>>

\* A request that leaves an already pending read in the slot.
LogReadPre_KeepsPending(handle, requested_bytes, ds_seg, dx_off) ==
    /\ s_pending_read' = IF s_pending_read.active
                             THEN s_pending_read
                             ELSE [active    |-> TRUE,
                                   handle    |-> handle,
                                   requested |-> requested_bytes,
                                   ds_seg    |-> ds_seg,
                                   dx_off    |-> dx_off]
    /\ log' = DEBUGTRACE_Write(g_log_fp, log,
                  [NoLine EXCEPT !.kind = "FILE_READ",
                                 !.t = ElapsedNow,
                                 !.name = lookup_filename(s_handle_map, handle),
                                 !.handle = handle,
                                 !.num = requested_bytes])

FileIOLogger_LogReadPre(handle, requested_bytes, ds_seg, dx_off) ==
    /\ s_pending_read' = [active    |-> TRUE,
                          handle    |-> handle,
                          requested |-> requested_bytes,
                          ds_seg    |-> ds_seg,
                          dx_off    |-> dx_off]
    /\ log' = DEBUGTRACE_Write(g_log_fp, log,
                  [NoLine EXCEPT !.kind = "FILE_READ",
                                 !.t = ElapsedNow,
                                 !.name = lookup_filename(s_handle_map, handle),
                                 !.handle = handle,
                                 !.num = requested_bytes])

DEBUGTRACE_LogFileReadPre(handle, requested_bytes, ds_seg, dx_off) ==
    /\ last_event' = "LogFileReadPre"
    /\ file_event' = [NoFileEvent EXCEPT !.handle = handle,
                                         !.bytes = requested_bytes,
                                         !.seg = ds_seg,
                                         !.off = dx_off]
    /\ read_trail' = [handle |-> handle, answered |-> FALSE]
    /\ IF ~g_config.trace_file_io
          THEN UNCHANGED <<s_pending_read, log>>
          ELSE FileIOLogger_LogReadPre(handle, requested_bytes, ds_seg, dx_off)
    /\ UNCHANGED <<g_trace_enabled, g_debugtrace_system_ready, g_config,
                   sink_vars, epoch_vars, s_exec_depth, s_handle_map,
                   s_sample_counter, instr_events, int_event, now,
                   shell_interactive, host,
                   resident_exits>>

(***************************************************************************)
(* File I/O: close, and the read result with its hex dump.                 *)
(***************************************************************************)
\* s_handle_map.erase(handle)
MapErase(map, handle) == [h \in DOMAIN map \ {handle} |-> map[h]]

\* A close that forgets the handle before it formats the line.
CloseLine_AfterErase(map, handle, elapsed) ==
    [NoLine EXCEPT !.kind = "FILE_CLOSE",
                   !.t = elapsed,
                   !.name = lookup_filename(MapErase(map, handle), handle),
                   !.handle = handle]

\* The line FileIOLogger_LogClose formats.
CloseLine(map, handle, elapsed) ==
    [NoLine EXCEPT !.kind = "FILE_CLOSE",
                   !.t = elapsed,
                   !.name = lookup_filename(map, handle),
                   !.handle = handle]

FileIOLogger_LogClose(handle) ==
    /\ log' = DEBUGTRACE_Write(g_log_fp, log,
                  CloseLine(s_handle_map, handle, ElapsedNow))
    /\ s_handle_map' = MapErase(s_handle_map, handle)

DEBUGTRACE_LogFileClose(handle) ==
    /\ last_event' = "LogFileClose"
    /\ file_event' = [NoFileEvent EXCEPT !.handle = handle]
    /\ IF ~g_config.trace_file_io
          THEN UNCHANGED <<s_handle_map, log>>
          ELSE FileIOLogger_LogClose(handle)
    /\ UNCHANGED <<g_trace_enabled, g_debugtrace_system_ready, g_config,
                   sink_vars, epoch_vars, s_exec_depth, s_pending_read,
                   s_sample_counter, instr_events, int_event, read_trail, now,
                   shell_interactive, host,
                   resident_exits>>

DEBUGTRACE_FileReadHexDumpBytes(cfg) == cfg.file_read_hex_dump

Min(a, b) == IF a <= b THEN a ELSE b

\* The characters printf needs for a non-negative integer, zero-padded to
\* at least `width`.
RECURSIVE Digits(_)
Digits(n) == IF n < 10 THEN 1 ELSE 1 + Digits(n \div 10)
PaddedDigits(n, width) == IF Digits(n) < width THEN width ELSE Digits(n)

\* sizeof(buf) and sizeof(hex_line) in FileIOLogger_LogReadPost.
HexDumpCap == 512
HexLineSize == 512 * 3 + 64

\* The length of "[T+%08llums] FILE DATA [first %d bytes]: ".
DataPrefixLen(elapsed, to_read) ==
    3 + PaddedDigits(elapsed, 8) + 4 + 17 + Digits(to_read) + 9

\* hex_dump: the bytes it prints, three characters each, while
\* wp + 3 <= out + out_size - 1.
hex_dump(len, out_size) ==
    IF out_size - 1 < 3 THEN 0 ELSE Min(len, (out_size - 1) \div 3)

\* A dump length that leaves the internal cap out.
DumpBytes_Uncapped(cfg, actual_bytes) ==
    Min(DEBUGTRACE_FileReadHexDumpBytes(cfg), actual_bytes)

\* to_read; a value <= 0 means no dump line.
DumpBytes(cfg, actual_bytes) ==
    LET dump_bytes == Min(DEBUGTRACE_FileReadHexDumpBytes(cfg), actual_bytes)
    IN  IF dump_bytes <= 0 THEN dump_bytes ELSE Min(dump_bytes, HexDumpCap)

\* A read result that is matched whenever the slot is active.
ReadMatched_AnyHandle(pending, handle) == pending.active

ReadMatched(pending, handle) == pending.active /\ pending.handle = handle

\* A read result that leaves the slot as it is when it does not match.
LogReadPost_MismatchKeepsSlot(handle, actual_bytes, buf_phys) ==
    /\ s_pending_read' =
           IF ~ReadMatched(s_pending_read, handle)
               THEN s_pending_read
               ELSE [s_pending_read EXCEPT !.active = FALSE]
    /\ IF ~ReadMatched(s_pending_read, handle)
          THEN UNCHANGED log
          ELSE LET with_result ==
                       DEBUGTRACE_Write(g_log_fp, log,
                           [NoLine EXCEPT
                               !.kind = "FILE_READ_RESULT",
                               !.t = ElapsedNow,
                               !.name = lookup_filename(s_handle_map, handle),
                               !.handle = handle,
                               !.num = actual_bytes])
                   to_read == DumpBytes(g_config, actual_bytes)
               IN  IF to_read <= 0
                       THEN log' = with_result
                       ELSE log' = DEBUGTRACE_Write(g_log_fp, with_result,
                                [NoLine EXCEPT
                                    !.kind = "FILE_DATA",
                                    !.t = ElapsedNow,
                                    !.num = to_read,
                                    !.bytes = hex_dump(to_read,
                                        HexLineSize -
                                        DataPrefixLen(ElapsedNow, to_read))])

\* The bytes come from the emulated memory at buf_phys; the dump line
\* carries how many it announces (num) and how many it prints (bytes).
FileIOLogger_LogReadPost(handle, actual_bytes, buf_phys) ==
    /\ s_pending_read' = [s_pending_read EXCEPT !.active = FALSE]
    /\ IF ~ReadMatched(s_pending_read, handle)
          THEN UNCHANGED log
          ELSE LET with_result ==
                       DEBUGTRACE_Write(g_log_fp, log,
                           [NoLine EXCEPT
                               !.kind = "FILE_READ_RESULT",
                               !.t = ElapsedNow,
                               !.name = lookup_filename(s_handle_map, handle),
                               !.handle = handle,
                               !.num = actual_bytes])
                   to_read == DumpBytes(g_config, actual_bytes)
               IN  IF to_read <= 0
                       THEN log' = with_result
                       ELSE log' = DEBUGTRACE_Write(g_log_fp, with_result,
                                [NoLine EXCEPT
                                    !.kind = "FILE_DATA",
                                    !.t = ElapsedNow,
                                    !.num = to_read,
                                    !.bytes = hex_dump(to_read,
                                        HexLineSize -
                                        DataPrefixLen(ElapsedNow, to_read))])

DEBUGTRACE_LogFileReadPost(handle, actual_bytes, buf_phys) ==
    /\ last_event' = "LogFileReadPost"
    /\ file_event' = [NoFileEvent EXCEPT !.handle = handle,
                                         !.bytes = actual_bytes]
    /\ read_trail' = [read_trail EXCEPT !.answered = TRUE]
    /\ IF ~g_config.trace_file_io
          THEN UNCHANGED <<s_pending_read, log>>
          ELSE FileIOLogger_LogReadPost(handle, actual_bytes, buf_phys)
    /\ UNCHANGED <<g_trace_enabled, g_debugtrace_system_ready, g_config,
                   sink_vars, epoch_vars, s_exec_depth, s_handle_map,
                   s_sample_counter, instr_events, int_event, now,
                   shell_interactive, host,
                   resident_exits>>

(***************************************************************************)
(* Instruction events and the sample-rate counter.                         *)
(***************************************************************************)
DEBUGTRACE_TraceInstructions(cfg) == cfg.trace_instructions

DEBUGTRACE_InstructionSampleRate(cfg) == cfg.instruction_sample_rate

\* A sampler that logs the first event of every period instead of the last.
SampleGate_FirstOfPeriod(counter, sample_rate) ==
    IF sample_rate > 1
        THEN [logged |-> counter = 0, counter |-> (counter + 1) % sample_rate]
        ELSE [logged |-> TRUE, counter |-> counter]

\* A sampler that compares with <= instead of <.
SampleGate_OffByOne(counter, sample_rate) ==
    IF sample_rate > 1
        THEN IF counter + 1 <= sample_rate
                 THEN [logged |-> FALSE, counter |-> counter + 1]
                 ELSE [logged |-> TRUE, counter |-> 0]
        ELSE [logged |-> TRUE, counter |-> counter]

\* The head of InstructionLogger_Log: is this event logged, and the new
\* s_sample_counter.
SampleGate(counter, sample_rate) ==
    IF sample_rate > 1
        THEN IF counter + 1 < sample_rate
                 THEN [logged |-> FALSE, counter |-> counter + 1]
                 ELSE [logged |-> TRUE, counter |-> 0]
        ELSE [logged |-> TRUE, counter |-> counter]

\* The 20-bit mask & 0xFFFFF.  The operands are uint32_t sums of a masked
\* value and a 16-bit one or a loop index: below 2^21, so none of them wraps
\* at 32 bits.
Mask20(x) == x % 1048576

\* static_cast<uint32_t>(cs_val) << 4, masked.
phys_base(cs_val) == Mask20(cs_val * 16)

phys_ip(cs_val, ip_val) == Mask20(phys_base(cs_val) + ip_val)

\* An opcode fetch that wraps the first address only.
OpcodeAddresses_WrapOnce(cs_val, ip_val) ==
    [k \in 1..8 |-> phys_ip(cs_val, ip_val) + (k - 1)]

\* The addresses the loop hands to mem_readb, in order: entry k is the one
\* of i = k - 1.
OpcodeAddresses(cs_val, ip_val) ==
    [k \in 1..8 |-> Mask20(phys_ip(cs_val, ip_val) + (k - 1))]

\* The line carries CS:IP and the addresses the opcode bytes were read from;
\* the bytes themselves and the register dump come from the emulated machine
\* and are not modelled.
InstructionLogger_Log(cs_val, ip_val) ==
    LET gate == SampleGate(s_sample_counter,
                           DEBUGTRACE_InstructionSampleRate(g_config))
    IN  /\ s_sample_counter' = gate.counter
        /\ log' = IF gate.logged
                      THEN DEBUGTRACE_Write(g_log_fp, log,
                               [NoLine EXCEPT !.kind = "INSTR",
                                              !.t = ElapsedNow,
                                              !.handle = cs_val,
                                              !.num = ip_val,
                                              !.addrs =
                                                  OpcodeAddresses(cs_val,
                                                                  ip_val)])
                      ELSE log

\* The CPU core reports one more instruction.
DEBUGTRACE_LogInstruction(cs_val, ip_val) ==
    /\ last_event' = "LogInstruction"
    /\ instr_events' = instr_events + 1
    /\ UNCHANGED <<int_event, file_event, read_trail>>
    /\ IF ~DEBUGTRACE_TraceInstructions(g_config)
          THEN UNCHANGED <<s_sample_counter, log>>
          ELSE InstructionLogger_Log(cs_val, ip_val)
    /\ UNCHANGED <<g_trace_enabled, g_debugtrace_system_ready, g_config,
                   sink_vars, epoch_vars, s_exec_depth, fileio_vars, now,
                   shell_interactive, host,
                   resident_exits>>

(***************************************************************************)
(* Software interrupts and the exclusion list.  A string is a sequence of  *)
(* one-character strings.                                                  *)
(***************************************************************************)
HexDigits ==
    <<"0", "1", "2", "3", "4", "5", "6", "7",
      "8", "9", "A", "B", "C", "D", "E", "F">>

\* snprintf(hex, sizeof(hex), "%02X", int_num) for a uint8_t.
Hex2(int_num) ==
    <<HexDigits[(int_num \div 16) + 1], HexDigits[(int_num % 16) + 1]>>

\* toupper in the "C" locale, on the characters exclusion lists are made of.
toupper(ch) ==
    CASE ch = "a" -> "A" [] ch = "b" -> "B" [] ch = "c" -> "C"
      [] ch = "d" -> "D" [] ch = "e" -> "E" [] ch = "f" -> "F"
      [] OTHER -> ch

\* std::string::find(ch, pos), positions counted from 1; 0 is npos.
StringFind(str, ch, pos) ==
    IF \E i \in pos..Len(str) : str[i] = ch
        THEN CHOOSE i \in pos..Len(str) :
                 /\ str[i] = ch
                 /\ \A j \in pos..(i - 1) : str[j] # ch
        ELSE 0

\* The loop of DEBUGTRACE_IsInterruptExcluded from position pos on.
RECURSIVE ScanExclusions(_, _, _)
ScanExclusions(excl, hex, pos) ==
    IF pos > Len(excl)
        THEN FALSE
        ELSE LET found == StringFind(excl, ",", pos)
                 comma == IF found = 0 THEN Len(excl) + 1 ELSE found
                 token == SubSeq(excl, pos, comma - 1)
             IN  IF /\ Len(token) = 2
                    /\ toupper(token[1]) = toupper(hex[1])
                    /\ toupper(token[2]) = toupper(hex[2])
                     THEN TRUE
                     ELSE ScanExclusions(excl, hex, comma + 1)

\* An exclusion test that compares the characters as they are.
IsInterruptExcluded_CaseSensitive(cfg, int_num) ==
    \E i \in 1..Len(cfg.exclude_interrupts) :
        /\ i = 1 \/ cfg.exclude_interrupts[i - 1] = ","
        /\ i + 1 <= Len(cfg.exclude_interrupts)
        /\ i + 1 = Len(cfg.exclude_interrupts)
              \/ cfg.exclude_interrupts[i + 2] = ","
        /\ SubSeq(cfg.exclude_interrupts, i, i + 1) = Hex2(int_num)

DEBUGTRACE_IsInterruptExcluded(cfg, int_num) ==
    IF cfg.exclude_interrupts = <<>>
        THEN FALSE
        ELSE ScanExclusions(cfg.exclude_interrupts, Hex2(int_num), 1)

\* The line carries the interrupt number and AH/AL; the description and the
\* register dump are not modelled here.
InterruptLogger_Log(int_num, reg_ah, reg_al) ==
    log' = DEBUGTRACE_Write(g_log_fp, log,
               [NoLine EXCEPT !.kind = "INT",
                              !.t = ElapsedNow,
                              !.num = int_num,
                              !.ah = reg_ah,
                              !.al = reg_al])

\* The CPU core dispatches INT int_num with reg_ah, reg_al in AX.
DEBUGTRACE_LogInterrupt(int_num, reg_ah, reg_al) ==
    /\ last_event' = "LogInterrupt"
    /\ int_event' = [num |-> int_num, ah |-> reg_ah, al |-> reg_al]
    /\ IF ~g_config.trace_interrupts
          THEN UNCHANGED log
          ELSE IF DEBUGTRACE_IsInterruptExcluded(g_config, int_num)
                   THEN UNCHANGED log
                   ELSE InterruptLogger_Log(int_num, reg_ah, reg_al)
    /\ UNCHANGED <<g_trace_enabled, g_debugtrace_system_ready, g_config,
                   sink_vars, epoch_vars, s_exec_depth, fileio_vars,
                   s_sample_counter, instr_events, file_event, read_trail, now,
                   shell_interactive, host,
                   resident_exits>>

(***************************************************************************)
(* File I/O: the create and open requests, logged before the DOS call.     *)
(***************************************************************************)
FileIOLogger_LogCreate(filename, cx_attrib) ==
    log' = DEBUGTRACE_Write(g_log_fp, log,
               [NoLine EXCEPT !.kind = "FILE_CREATE",
                              !.t = ElapsedNow,
                              !.name = filename,
                              !.num = cx_attrib])

DEBUGTRACE_LogFileCreate(filename, cx_attrib) ==
    /\ last_event' = "LogFileCreate"
    /\ file_event' = [NoFileEvent EXCEPT !.name = filename]
    /\ IF ~g_config.trace_file_io
          THEN UNCHANGED log
          ELSE FileIOLogger_LogCreate(filename, cx_attrib)
    /\ UNCHANGED <<g_trace_enabled, g_debugtrace_system_ready, g_config,
                   sink_vars, epoch_vars, s_exec_depth, fileio_vars,
                   s_sample_counter, instr_events, int_event, read_trail, now,
                   shell_interactive, host,
                   resident_exits>>

\* switch (al_mode & 0x03)
OpenModeString(al_mode) ==
    CASE al_mode % 4 = 0 -> "read-only"
      [] al_mode % 4 = 1 -> "write-only"
      [] al_mode % 4 = 2 -> "read-write"
      [] OTHER -> "unknown"

FileIOLogger_LogOpen(filename, al_mode) ==
    log' = DEBUGTRACE_Write(g_log_fp, log,
               [NoLine EXCEPT !.kind = "FILE_OPEN",
                              !.t = ElapsedNow,
                              !.name = filename,
                              !.mode = OpenModeString(al_mode),
                              !.al = al_mode])

DEBUGTRACE_LogFileOpen(filename, al_mode) ==
    /\ last_event' = "LogFileOpen"
    /\ file_event' = [NoFileEvent EXCEPT !.name = filename]
    /\ IF ~g_config.trace_file_io
          THEN UNCHANGED log
          ELSE FileIOLogger_LogOpen(filename, al_mode)
    /\ UNCHANGED <<g_trace_enabled, g_debugtrace_system_ready, g_config,
                   sink_vars, epoch_vars, s_exec_depth, fileio_vars,
                   s_sample_counter, instr_events, int_event, read_trail, now,
                   shell_interactive, host,
                   resident_exits>>

(***************************************************************************)
(* Video-mode switches (INT 10h/AH=00h) and the mode description table.    *)
(***************************************************************************)
k_mode_table ==
    << [mode |-> 0,   description |-> "40x25 16-color text (B&W)"],
       [mode |-> 1,   description |-> "40x25 16-color text"],
       [mode |-> 2,   description |-> "80x25 16-color text (B&W)"],
       [mode |-> 3,   description |-> "80x25 16-color text"],
       [mode |-> 4,   description |-> "320x200 4-color CGA"],
       [mode |-> 5,   description |-> "320x200 4-color CGA (B&W)"],
       [mode |-> 6,   description |-> "640x200 2-color CGA"],
       [mode |-> 7,   description |-> "80x25 monochrome text (MDA/Hercules)"],
       [mode |-> 13,  description |-> "320x200 16-color EGA"],
       [mode |-> 14,  description |-> "640x200 16-color EGA"],
       [mode |-> 15,  description |-> "640x350 monochrome EGA"],
       [mode |-> 16,  description |-> "640x350 16-color EGA"],
       [mode |-> 17,  description |-> "640x480 2-color VGA"],
       [mode |-> 18,  description |-> "640x480 16-color VGA"],
       [mode |-> 19,  description |-> "320x200 256-color VGA"],
       [mode |-> 256, description |-> "640x400 256-color VESA"],
       [mode |-> 257, description |-> "640x480 256-color VESA"],
       [mode |-> 258, description |-> "800x600 16-color VESA"],
       [mode |-> 259, description |-> "800x600 256-color VESA"],
       [mode |-> 260, description |-> "1024x768 16-color VESA"],
       [mode |-> 261, description |-> "1024x768 256-color VESA"],
       [mode |-> 262, description |-> "1280x1024 16-color VESA"],
       [mode |-> 263, description |-> "1280x1024 256-color VESA"],
       [mode |-> 269, description |-> "320x200 32K-color VESA"],
       [mode |-> 270, description |-> "320x200 64K-color VESA"],
       [mode |-> 271, description |-> "320x200 16M-color VESA"],
       [mode |-> 272, description |-> "640x480 32K-color VESA"],
       [mode |-> 273, description |-> "640x480 64K-color VESA"],
       [mode |-> 274, description |-> "640x480 16M-color VESA"],
       [mode |-> 275, description |-> "800x600 32K-color VESA"],
       [mode |-> 276, description |-> "800x600 64K-color VESA"],
       [mode |-> 277, description |-> "800x600 16M-color VESA"],
       [mode |-> 278, description |-> "1024x768 32K-color VESA"],
       [mode |-> 279, description |-> "1024x768 64K-color VESA"],
       [mode |-> 280, description |-> "1024x768 16M-color VESA"] >>

\* mode & 0x7FFF, for a uint16_t.
MaskBit15(mode) == mode % 32768

\* The loop of lookup_mode_desc from table entry k on.
RECURSIVE ScanModeTable(_, _)
ScanModeTable(key, k) ==
    IF k > Len(k_mode_table)
        THEN "unknown mode"
        ELSE IF k_mode_table[k].mode = key
                 THEN k_mode_table[k].description
                 ELSE ScanModeTable(key, k + 1)

\* A lookup that compares the mode as it is, bit 15 included.
lookup_mode_desc_Unmasked(mode) == ScanModeTable(mode, 1)

lookup_mode_desc(mode) == ScanModeTable(MaskBit15(mode), 1)

\* The line carries the two mode numbers (handle: old, num: new) and their
\* descriptions.
VideoModeLogger_Log(old_mode, new_mode) ==
    log' = DEBUGTRACE_Write(g_log_fp, log,
               [NoLine EXCEPT !.kind = "VIDEO_MODE",
                              !.t = ElapsedNow,
                              !.handle = old_mode,
                              !.num = new_mode,
                              !.old_desc = lookup_mode_desc(old_mode),
                              !.new_desc = lookup_mode_desc(new_mode)])

DEBUGTRACE_LogVideoModeSwitch(old_mode, new_mode) ==
    /\ last_event' = "LogVideoModeSwitch"
    /\ IF ~g_config.trace_video_modes
          THEN UNCHANGED log
          ELSE VideoModeLogger_Log(old_mode, new_mode)
    /\ UNCHANGED <<g_trace_enabled, g_debugtrace_system_ready, g_config,
                   sink_vars, epoch_vars, s_exec_depth, fileio_vars,
                   instr_vars, now, shell_interactive, host,
                   resident_exits>>

(***************************************************************************)
(* The steady clock advances between calls.                                *)
(***************************************************************************)
Tick ==
    /\ now < MaxClock
    /\ now' = now + 1
    /\ last_event' = "Tick"
    /\ UNCHANGED <<g_trace_enabled, g_debugtrace_system_ready, g_config,
                   sink_vars, epoch_vars, s_exec_depth, fileio_vars,
                   instr_vars, log, shell_interactive, host,
                   resident_exits>>

(***************************************************************************)
(* The shell enters or leaves a batch file.                                *)
(***************************************************************************)
ShellSwitch ==
    /\ shell_interactive' = ~shell_interactive
    /\ last_event' = "ShellSwitch"
    /\ UNCHANGED <<g_trace_enabled, g_debugtrace_system_ready, g_config,
                   sink_vars, epoch_vars, s_exec_depth, fileio_vars,
                   instr_vars, now, log, host, resident_exits>>

(***************************************************************************)
(* Specifications.  The host's calls, with their arguments drawn from      *)
(* small sets; no call is made that would take the sink past `bound` lines.*)
(***************************************************************************)
ProgramNames == {"GAME.EXE"}
ReturnCodes == {0}

Initialise(bound) ==
    \E section \in LifecycleSections, fopen_ok \in BOOLEAN :
        DEBUGTRACE_Init(section, fopen_ok) /\ Len(log') <= bound
Shutdown(bound) == DEBUGTRACE_Shutdown /\ Len(log') <= bound
SettingUpdated ==
    \E section \in LifecycleSections :
        notify_debugtrace_setting_updated(section)
LogExec(bound) ==
    \E filename \in ProgramNames :
        DEBUGTRACE_LogExec(filename) /\ Len(log') <= bound
OnProgramTerminate(bound) ==
    \E return_code \in ReturnCodes :
        DEBUGTRACE_OnProgramTerminate(return_code) /\ Len(log') <= bound
TsrExit(bound) ==
    /\ resident_exits < MaxResident
    /\ \E return_code \in ReturnCodes :
           DOS_TerminateAndStayResident(return_code) /\ Len(log') <= bound
RecordHandleOpen == DEBUGTRACE_RecordHandleOpen(5, "A.DAT")
LogFileReadPre(bound) ==
    DEBUGTRACE_LogFileReadPre(5, 1, 0, 0) /\ Len(log') <= bound

\* The sessions of the instruction specification: the master switch, the
\* instruction category and the sample rate vary; tracing starts at Init.
InstrSections ==
    { [DefaultConfig EXCEPT !.enabled = e,
                            !.auto_trace_on_exec = FALSE,
                            !.trace_instructions = ti,
                            !.instruction_sample_rate = n] :
        e \in BOOLEAN, ti \in BOOLEAN, n \in (-1)..MaxRate }
InitialiseInstr(bound) ==
    \E section \in InstrSections, fopen_ok \in BOOLEAN :
        DEBUGTRACE_Init(section, fopen_ok) /\ Len(log') <= bound
\* The CPU core runs between Init and Shutdown; the program is a straight
\* line, so the k-th instruction is at IP = k.
LogInstruction(bound) ==
    /\ host = "running"
    /\ instr_events < MaxInstr
    /\ DEBUGTRACE_LogInstruction(0, instr_events + 1)
    /\ Len(log') <= bound

\* The sessions of the interrupt specification: every exclusion list of at
\* most MaxExclLen characters over ExclChars, and the default one.
ExclChars == {"c", "C", ","}
ExclusionLists ==
    UNION {[1..n -> ExclChars] : n \in 0..MaxExclLen}
        \cup {DefaultConfig.exclude_interrupts}
IntSections ==
    { [DefaultConfig EXCEPT !.enabled = TRUE,
                            !.auto_trace_on_exec = FALSE,
                            !.trace_interrupts = ti,
                            !.exclude_interrupts = excl] :
        ti \in BOOLEAN, excl \in ExclusionLists }
InitialiseInt(bound) ==
    \E section \in IntSections, fopen_ok \in BOOLEAN :
        DEBUGTRACE_Init(section, fopen_ok) /\ Len(log') <= bound
\* INT 08h, 0Ch, 1Ch and CCh, with AH = 00h or 4Ch.
IntNumbers == {8, 12, 28, 204}
SubFunctions == {0, 76}
LogInterrupt(bound) ==
    /\ host = "running"
    /\ \E int_num \in IntNumbers, reg_ah \in SubFunctions :
           DEBUGTRACE_LogInterrupt(int_num, reg_ah, 0)
    /\ Len(log') <= bound

\* The sessions of the two file specifications: the file category on or off
\* and, for the read results, the hex-dump size.  The DOS kernel makes its
\* calls between Init and Shutdown.
Handles == {5, 6}
OutOfRangeHandles == {DOS_FILES, 65535}
FileNames == {"A.DAT", "B.DAT"}
HexDumpSizes == {-1, 0, 2, 64, 600}
ActualSizes == {0, 3, 600}
FileSections ==
    { [DefaultConfig EXCEPT !.enabled = TRUE,
                            !.auto_trace_on_exec = FALSE,
                            !.trace_file_io = io] : io \in BOOLEAN }
ReadSections ==
    { [section EXCEPT !.file_read_hex_dump = n] :
        section \in FileSections, n \in HexDumpSizes }
InitialiseFile(bound) ==
    \E section \in FileSections, fopen_ok \in BOOLEAN :
        DEBUGTRACE_Init(section, fopen_ok) /\ Len(log') <= bound
InitialiseRead(bound) ==
    \E section \in ReadSections, fopen_ok \in BOOLEAN :
        DEBUGTRACE_Init(section, fopen_ok) /\ Len(log') <= bound
FileRecord ==
    /\ host = "running"
    /\ \E handle \in Handles \cup OutOfRangeHandles,
          filename \in FileNames \cup {""} :
           DEBUGTRACE_RecordHandleOpen(handle, filename)
FileClose(bound) ==
    /\ host = "running"
    /\ \E handle \in Handles : DEBUGTRACE_LogFileClose(handle)
    /\ Len(log') <= bound
FileReadPre(bound) ==
    /\ host = "running"
    /\ \E handle \in Handles : DEBUGTRACE_LogFileReadPre(handle, 1, 0, 0)
    /\ Len(log') <= bound
FileReadPost(bound) ==
    /\ host = "running"
    /\ \E handle \in Handles, actual_bytes \in ActualSizes :
           DEBUGTRACE_LogFileReadPost(handle, actual_bytes, 0)
    /\ Len(log') <= bound

\* The sessions of the specification of the activation cycle: tracing is
\* enabled, starts at Init or at the first program load, and any load may
\* activate it.
CycleSections ==
    { [DefaultConfig EXCEPT !.enabled = TRUE,
                            !.auto_trace_on_exec = a,
                            !.trace_on_interactive_exec_only = FALSE] :
        a \in BOOLEAN }
InitialiseCycle(bound) ==
    \E section \in CycleSections, fopen_ok \in BOOLEAN :
        DEBUGTRACE_Init(section, fopen_ok) /\ Len(log') <= bound

\* Read requests with their arguments varied: CX = 1 or 512, the buffer at
\* 0000:0000, 0000:0010, 1000:0000 or 1000:0010.
RequestSizes == {1, 512}
BufferSegments == {0, 4096}
BufferOffsets == {0, 16}
ReadRequest(bound) ==
    /\ host = "running"
    /\ \E handle \in Handles, requested_bytes \in RequestSizes,
          ds_seg \in BufferSegments, dx_off \in BufferOffsets :
           DEBUGTRACE_LogFileReadPre(handle, requested_bytes, ds_seg, dx_off)
    /\ Len(log') <= bound

\* The sessions of the opcode-fetch specification: tracing starts at Init,
\* every instruction is sampled, the instruction category is on or off.
\* The CPU is at 0000:0000, 1234:5678, F000:FFFC, FFFF:0010, FFFF:FFF8 or
\* FFFF:FFFF.
FetchSections ==
    { [DefaultConfig EXCEPT !.enabled = TRUE,
                            !.auto_trace_on_exec = FALSE,
                            !.trace_instructions = ti] : ti \in BOOLEAN }
FetchPoints ==
    { <<0, 0>>, <<4660, 22136>>, <<61440, 65532>>, <<65535, 16>>,
      <<65535, 65528>>, <<65535, 65535>> }
InitialiseFetch(bound) ==
    \E section \in FetchSections, fopen_ok \in BOOLEAN :
        DEBUGTRACE_Init(section, fopen_ok) /\ Len(log') <= bound
FetchInstruction(bound) ==
    /\ host = "running"
    /\ instr_events < MaxInstr
    /\ \E at \in FetchPoints : DEBUGTRACE_LogInstruction(at[1], at[2])
    /\ Len(log') <= bound

\* The sessions of the video specification: tracing starts at Init, the
\* video category is on or off.  The modes: 13h and the unlisted 7Fh, each
\* with and without bit 15, and the VESA mode 101h.
VideoSections ==
    { [DefaultConfig EXCEPT !.enabled = TRUE,
                            !.auto_trace_on_exec = FALSE,
                            !.trace_video_modes = tv] : tv \in BOOLEAN }
VideoModes == {19, 32787, 127, 32895, 257}
InitialiseVideo(bound) ==
    \E section \in VideoSections, fopen_ok \in BOOLEAN :
        DEBUGTRACE_Init(section, fopen_ok) /\ Len(log') <= bound
VideoModeSwitch(bound) ==
    /\ host = "running"
    /\ \E old_mode \in VideoModes, new_mode \in VideoModes :
           DEBUGTRACE_LogVideoModeSwitch(old_mode, new_mode)
    /\ Len(log') <= bound

\* The sessions of the specification of all entry points: the master switch
\* and the activation mode vary, every category is on, every second
\* instruction is sampled and INT 08h and 1Ch are excluded.
EventSections ==
    { [DefaultConfig EXCEPT !.enabled = e,
                            !.auto_trace_on_exec = a,
                            !.trace_on_interactive_exec_only = FALSE,
                            !.instruction_sample_rate = 2] :
        e \in BOOLEAN, a \in BOOLEAN }
InitialiseEvents(bound) ==
    \E section \in EventSections, fopen_ok \in BOOLEAN :
        DEBUGTRACE_Init(section, fopen_ok) /\ Len(log') <= bound
\* INT 08h (excluded by default) and INT 21h/AH=4Ch.
EventInterrupt(bound) ==
    /\ host = "running"
    /\ \E int_num \in {8, 33} : DEBUGTRACE_LogInterrupt(int_num, 76, 0)
    /\ Len(log') <= bound
EventFileCreate(bound) ==
    /\ host = "running"
    /\ DEBUGTRACE_LogFileCreate("A.DAT", 0)
    /\ Len(log') <= bound
EventFileOpen(bound) ==
    /\ host = "running"
    /\ DEBUGTRACE_LogFileOpen("A.DAT", 0)
    /\ Len(log') <= bound
EventFileClose(bound) ==
    /\ host = "running"
    /\ DEBUGTRACE_LogFileClose(5)
    /\ Len(log') <= bound
\* A read that hit the end of the file: no bytes, so no dump line.
EventFileReadPost(bound) ==
    /\ host = "running"
    /\ DEBUGTRACE_LogFileReadPost(5, 0, 0)
    /\ Len(log') <= bound
\* Text mode 03h to mode 13h.
EventVideoModeSwitch(bound) ==
    /\ host = "running"
    /\ DEBUGTRACE_LogVideoModeSwitch(3, 19)
    /\ Len(log') <= bound

\* Calls that reach the entry points after DEBUGTRACE_Shutdown has returned:
\* an instruction, INT 21h/AH=4Ch, a create, an open, a close of handle 5, a
\* read result for handle 5 and a switch from mode 03h to mode 13h.
LateInstruction(bound) ==
    /\ host = "stopped"
    /\ instr_events < MaxInstr
    /\ DEBUGTRACE_LogInstruction(0, instr_events + 1)
    /\ Len(log') <= bound
LateInterrupt(bound) ==
    /\ host = "stopped"
    /\ DEBUGTRACE_LogInterrupt(33, 76, 0)
    /\ Len(log') <= bound
LateFileCreate(bound) ==
    /\ host = "stopped"
    /\ DEBUGTRACE_LogFileCreate("A.DAT", 0)
    /\ Len(log') <= bound
LateFileOpen(bound) ==
    /\ host = "stopped"
    /\ DEBUGTRACE_LogFileOpen("A.DAT", 0)
    /\ Len(log') <= bound
LateFileClose(bound) ==
    /\ host = "stopped"
    /\ DEBUGTRACE_LogFileClose(5)
    /\ Len(log') <= bound
LateFileReadPost(bound) ==
    /\ host = "stopped"
    /\ DEBUGTRACE_LogFileReadPost(5, 0, 0)
    /\ Len(log') <= bound
LateVideoModeSwitch(bound) ==
    /\ host = "stopped"
    /\ DEBUGTRACE_LogVideoModeSwitch(3, 19)
    /\ Len(log') <= bound

\* The lifecycle: session start and end, live settings updates, program loads
\* and terminations.
Next ==
    \/ Initialise(MaxLog)
    \/ Shutdown(MaxLog)
    \/ SettingUpdated
    \/ LogExec(MaxLog)
    \/ OnProgramTerminate(MaxLog)
    \/ ShellSwitch
    \/ Tick

Spec == Init /\ [][Next]_vars

\* One session of program loads and program exits, normal or resident.
NextNest ==
    \/ Initialise(MaxNestLog)
    \/ LogExec(MaxNestLog)
    \/ OnProgramTerminate(MaxNestLog)
    \/ TsrExit(MaxNestLog)
    \/ ShellSwitch
    \/ Tick

SpecNest == Init /\ [][NextNest]_vars

\* The lifecycle with a file opened and a read requested along the way.
NextIO ==
    \/ Initialise(MaxIOLog)
    \/ Shutdown(MaxIOLog)
    \/ SettingUpdated
    \/ LogExec(MaxIOLog)
    \/ OnProgramTerminate(MaxIOLog)
    \/ RecordHandleOpen
    \/ LogFileReadPre(MaxIOLog)
    \/ ShellSwitch
    \/ Tick

SpecIO == Init /\ [][NextIO]_vars

\* One session of instruction events, its settings fixed at Init (the
\* options are registered as changeable only at start).
NextInstr ==
    \/ InitialiseInstr(MaxInstr + 2)
    \/ LogInstruction(MaxInstr + 2)
    \/ Shutdown(MaxInstr + 2)
    \/ Tick

SpecInstr == Init /\ [][NextInstr]_vars

\* One session of software interrupts, its settings fixed at Init.
NextInt ==
    \/ InitialiseInt(MaxIntLog)
    \/ LogInterrupt(MaxIntLog)
    \/ Shutdown(MaxIntLog)

SpecInt == Init /\ [][NextInt]_vars

\* One session of opens, closes and read requests: the handle registry.
NextFile ==
    \/ InitialiseFile(MaxFileLog)
    \/ FileRecord
    \/ FileClose(MaxFileLog)
    \/ FileReadPre(MaxFileLog)
    \/ Shutdown(MaxFileLog)

SpecFile == Init /\ [][NextFile]_vars

\* One session of read requests and read results on a file opened as
\* handle 5.
NextRead ==
    \/ InitialiseRead(MaxReadLog)
    \/ RecordHandleOpen
    \/ FileReadPre(MaxReadLog)
    \/ FileReadPost(MaxReadLog)
    \/ Shutdown(MaxReadLog)

SpecRead == Init /\ [][NextRead]_vars

\* One session of program loads and terminations with a file opened and a
\* read requested along the way, its settings fixed at Init: tracing goes on
\* and off as programs come and go.
NextCycle ==
    \/ InitialiseCycle(MaxCycleLog)
    \/ LogExec(MaxCycleLog)
    \/ OnProgramTerminate(MaxCycleLog)
    \/ RecordHandleOpen
    \/ LogFileReadPre(MaxCycleLog)

SpecCycle == Init /\ [][NextCycle]_vars

\* One session of read requests on a file opened as handle 5, its settings
\* fixed at Init.
NextRequest ==
    \/ InitialiseFile(MaxRequestLog)
    \/ RecordHandleOpen
    \/ ReadRequest(MaxRequestLog)
    \/ Shutdown(MaxRequestLog)

SpecRequest == Init /\ [][NextRequest]_vars

\* One session of instruction events at varied CS:IP, its settings fixed at
\* Init.
NextFetch ==
    \/ InitialiseFetch(MaxFetchLog)
    \/ FetchInstruction(MaxFetchLog)
    \/ Shutdown(MaxFetchLog)

SpecFetch == Init /\ [][NextFetch]_vars

\* One session of video-mode switches, its settings fixed at Init.
NextVideo ==
    \/ InitialiseVideo(MaxVideoLog)
    \/ VideoModeSwitch(MaxVideoLog)
    \/ Shutdown(MaxVideoLog)

SpecVideo == Init /\ [][NextVideo]_vars

\* One session in which the host calls every entry point, its settings fixed
\* at Init.
NextEvents ==
    \/ InitialiseEvents(MaxEventLog)
    \/ LogExec(MaxEventLog)
    \/ OnProgramTerminate(MaxEventLog)
    \/ LogInstruction(MaxEventLog)
    \/ EventInterrupt(MaxEventLog)
    \/ EventFileCreate(MaxEventLog)
    \/ EventFileOpen(MaxEventLog)
    \/ RecordHandleOpen
    \/ EventFileClose(MaxEventLog)
    \/ LogFileReadPre(MaxEventLog)
    \/ EventFileReadPost(MaxEventLog)
    \/ EventVideoModeSwitch(MaxEventLog)
    \/ Shutdown(MaxEventLog)

SpecEvents == Init /\ [][NextEvents]_vars

\* One session, its settings fixed at Init, in which the host goes on calling
\* the entry points after Shutdown.  Program loads, terminations, opens and
\* read requests come at any time, the other calls after Shutdown.
NextLate ==
    \/ InitialiseEvents(MaxLateLog)
    \/ Shutdown(MaxLateLog)
    \/ LogExec(MaxLateLog)
    \/ OnProgramTerminate(MaxLateLog)
    \/ RecordHandleOpen
    \/ LogFileReadPre(MaxLateLog)
    \/ LateInstruction(MaxLateLog)
    \/ LateInterrupt(MaxLateLog)
    \/ LateFileCreate(MaxLateLog)
    \/ LateFileOpen(MaxLateLog)
    \/ LateFileClose(MaxLateLog)
    \/ LateFileReadPost(MaxLateLog)
    \/ LateVideoModeSwitch(MaxLateLog)

SpecLate == Init /\ [][NextLate]_vars

(***************************************************************************)
(* Reading the sink.                                                       *)
(***************************************************************************)
\* The lines a step appends to the sink.
Appended == SubSeq(log', Len(log) + 1, Len(log'))

Kinds(lines) == [i \in 1..Len(lines) |-> lines[i].kind]

\* The places of the lines of one kind.
LinesOf(kind) == {i \in 1..Len(log) : log[i].kind = kind}

Max(S) == CHOOSE m \in S : \A n \in S : n <= m

\* The place of the latest activation banner (0: none yet).
LastBanner == Max(LinesOf("ACTIVATED") \cup {0})

\* Line k is the first line of a fresh epoch: the session-start marker, or
\* the PROGRAM EXEC line of an activating load (its banner follows it).
FreshEpochAt(k) ==
    \/ log[k].kind = "STARTED"
    \/ /\ log[k].kind = "EXEC"
       /\ k < Len(log)
       /\ log[k + 1].kind = "ACTIVATED"

(***************************************************************************)
(* C1.  Nesting invariant.  In a session of program loads and normal       *)
(* terminations, count the loads and the terminations logged since the     *)
(* latest activating load (that load included).  While tracing is active   *)
(* exec_depth equals loads - terminations and is positive; a step turns    *)
(* tracing off only if it is a termination, and a termination turns it off *)
(* exactly when it brings loads - terminations to zero.                    *)
(***************************************************************************)
LoadsInWindow ==
    1 + Cardinality({i \in LinesOf("EXEC") : i > LastBanner})

TerminationsInWindow ==
    Cardinality({i \in LinesOf("TERMINATED") : i > LastBanner})

ActivatedByLoad == g_trace_enabled /\ LastBanner > 0

C1_DepthIsLoadsMinusTerminations ==
    ActivatedByLoad =>
        /\ s_exec_depth = LoadsInWindow - TerminationsInWindow
        /\ s_exec_depth > 0

C1_DeactivatedExactlyAtZero ==
    /\ (g_trace_enabled /\ ~g_trace_enabled') =>
           last_event' = "OnProgramTerminate"
    /\ (ActivatedByLoad /\ last_event' = "OnProgramTerminate") =>
           (~g_trace_enabled' <=>
                LoadsInWindow - (TerminationsInWindow + 1) = 0)

C1_NestingInvariant ==
    [](C1_DepthIsLoadsMinusTerminations) /\ [][C1_DeactivatedExactlyAtZero]_vars

\* Two nested loads, then two terminations: the second one deactivates.
C1_Witness ==
    /\ Kinds(log) = <<"EXEC", "ACTIVATED", "EXEC", "TERMINATED",
                      "TERMINATED", "DEACTIVATED">>
    /\ log[4].depth = 1
    /\ log[5].depth = 0
    /\ ~g_trace_enabled

(***************************************************************************)
(* C2.  In every reachable state, enabled = false implies exec_depth = 0.  *)
(***************************************************************************)
C2_DisabledImpliesDepthZero == ~g_trace_enabled => s_exec_depth = 0

(***************************************************************************)
(* C3.  The enabled flag goes from true to false only through a program    *)
(* termination that drives exec_depth to zero or through Shutdown.         *)
(***************************************************************************)
C3_StopsOnlyByTerminationOrShutdown ==
    [][(g_trace_enabled /\ ~g_trace_enabled') =>
          \/ last_event' = "Shutdown"
          \/ last_event' = "OnProgramTerminate" /\ s_exec_depth - 1 <= 0]_vars

(***************************************************************************)
(* C4.  A program termination received while tracing is disabled appends   *)
(* no line and leaves enabled, exec_depth, the epoch, the handle registry  *)
(* and the pending-read slot unchanged.                                    *)
(***************************************************************************)
C4_TerminationWhileDisabledIgnored ==
    [][(~g_trace_enabled /\ last_event' = "OnProgramTerminate") =>
          UNCHANGED <<log, g_trace_enabled, s_exec_depth, g_epoch,
                      g_epoch_set, s_handle_map, s_pending_read>>]_vars

\* A termination arrived while tracing was off, a handle was registered and a
\* read was pending: the sink still ends with the read request.
C4_Witness ==
    /\ last_event = "OnProgramTerminate"
    /\ ~g_trace_enabled
    /\ 5 \in DOMAIN s_handle_map
    /\ s_pending_read.active
    /\ Len(log) > 0
    /\ log[Len(log)].kind = "FILE_READ"

(***************************************************************************)
(* C5.  A program termination received while active appends the PROGRAM    *)
(* TERMINATED line; when it drives exec_depth to <= 0 the deactivation     *)
(* marker follows, and afterwards enabled = false and exec_depth = 0;      *)
(* otherwise nothing follows and tracing stays active.                     *)
(***************************************************************************)
C5_TerminationWhileActive ==
    [][(g_trace_enabled /\ last_event' = "OnProgramTerminate") =>
          IF s_exec_depth - 1 <= 0
              THEN /\ Kinds(Appended) = <<"TERMINATED", "DEACTIVATED">>
                   /\ ~g_trace_enabled'
                   /\ s_exec_depth' = 0
              ELSE /\ Kinds(Appended) = <<"TERMINATED">>
                   /\ g_trace_enabled'
                   /\ s_exec_depth' = s_exec_depth - 1]_vars

\* Both cases in one session: a termination that left tracing on, then the
\* one that turned it off.
C5_Witness ==
    /\ last_event = "OnProgramTerminate"
    /\ ~g_trace_enabled
    /\ Len(log) >= 3
    /\ Kinds(SubSeq(log, Len(log) - 2, Len(log))) =
           <<"TERMINATED", "TERMINATED", "DEACTIVATED">>

(***************************************************************************)
(* C6.  A program load that turns tracing on sets the epoch to now, and    *)
(* leaves exec_depth at exactly 1 whatever happened before; it appends the *)
(* PROGRAM EXEC line followed by the activation banner.                    *)
(***************************************************************************)
C6_ActivatingLoad ==
    [][(~g_trace_enabled /\ g_trace_enabled' /\ last_event' = "LogExec") =>
          /\ g_epoch_set'
          /\ g_epoch' = now
          /\ s_exec_depth' = 1
          /\ Kinds(Appended) = <<"EXEC", "ACTIVATED">>]_vars

(***************************************************************************)
(* C7.  A program load received while tracing is already active increments *)
(* exec_depth by exactly one, appends exactly one PROGRAM EXEC line and no *)
(* banner, and leaves the epoch and the enabled flag unchanged.            *)
(***************************************************************************)
C7_LoadWhileActive ==
    [][(g_trace_enabled /\ last_event' = "LogExec") =>
          /\ s_exec_depth' = s_exec_depth + 1
          /\ Kinds(Appended) = <<"EXEC">>
          /\ UNCHANGED <<g_epoch, g_epoch_set, g_trace_enabled>>]_vars

(***************************************************************************)
(* C8.  Interactive-only gating.  With auto_trace_on_exec and              *)
(* trace_on_interactive_exec_only both true and tracing disabled, a        *)
(* program load in a batch context does not activate tracing, appends no   *)
(* line and leaves exec_depth and the epoch unchanged; at the interactive  *)
(* prompt it activates tracing and appends the load line followed by the   *)
(* activation banner.                                                      *)
(***************************************************************************)
GatedLoad ==
    /\ ~g_trace_enabled
    /\ g_config.auto_trace_on_exec
    /\ g_config.trace_on_interactive_exec_only
    /\ last_event' = "LogExec"

GateOutcome ==
    IF shell_interactive
        THEN /\ g_trace_enabled'
             /\ Kinds(Appended) = <<"EXEC", "ACTIVATED">>
        ELSE /\ ~g_trace_enabled'
             /\ log' = log
             /\ UNCHANGED <<s_exec_depth, g_epoch, g_epoch_set>>

\* As claimed: in every state with the two options on and tracing off.
C8_InteractiveOnlyGating == [][GatedLoad => GateOutcome]_vars

\* As amended: in a session that Init has made ready and Shutdown has not
\* yet ended.
C8_InteractiveOnlyGatingWhenReady ==
    [][(g_debugtrace_system_ready /\ GatedLoad) => GateOutcome]_vars

\* A load from a batch file in a ready session, which activated nothing.
C8_Witness ==
    /\ last_event = "LogExec"
    /\ g_debugtrace_system_ready
    /\ g_config.auto_trace_on_exec
    /\ g_config.trace_on_interactive_exec_only
    /\ ~shell_interactive
    /\ ~g_trace_enabled
    /\ log = <<>>

(***************************************************************************)
(* C9.  Once tracing is active, every program load is counted in           *)
(* exec_depth and logged with a PROGRAM EXEC line, whatever the shell      *)
(* reports and whatever trace_on_interactive_exec_only is.                 *)
(***************************************************************************)
C9_EveryLoadTracedOnceActive ==
    [][(g_trace_enabled /\ last_event' = "LogExec") =>
          \A interactive \in BOOLEAN, only_interactive \in BOOLEAN :
              (/\ shell_interactive = interactive
               /\ g_config.trace_on_interactive_exec_only = only_interactive)
              => /\ s_exec_depth' = s_exec_depth + 1
                 /\ Len(Appended) >= 1
                 /\ Appended[1].kind = "EXEC"]_vars

(***************************************************************************)
(* C10.  Elapsed time.  DEBUGTRACE_GetElapsedMs returns 0 in every state   *)
(* before the first activation; between two lines of the sink with no      *)
(* fresh epoch in between, the elapsed value does not decrease; a program  *)
(* load while active never makes the elapsed value smaller.                *)
(***************************************************************************)
NeverActivated == LinesOf("STARTED") \cup LinesOf("ACTIVATED") = {}

C10_ZeroBeforeFirstActivation == NeverActivated => ElapsedNow = 0

C10_MonotoneInWindow ==
    \A i \in 1..Len(log), j \in 1..Len(log) :
        (/\ i < j
         /\ log[i].t # -1
         /\ log[j].t # -1
         /\ \A k \in (i + 1)..j : ~FreshEpochAt(k))
        => log[i].t <= log[j].t

C10_NestedLoadKeepsElapsed ==
    (g_trace_enabled /\ last_event' = "LogExec") => ElapsedNow' >= ElapsedNow

C10_ElapsedTime ==
    /\ [](C10_ZeroBeforeFirstActivation /\ C10_MonotoneInWindow)
    /\ [][C10_NestedLoadKeepsElapsed]_vars

\* A nested load logged later in the same window, with a larger elapsed
\* value than the activating one.
C10_Witness ==
    /\ Len(log) >= 3
    /\ Kinds(SubSeq(log, 1, 3)) = <<"EXEC", "ACTIVATED", "EXEC">>
    /\ log[1].t = 0
    /\ log[3].t > 0
    /\ g_trace_enabled

(***************************************************************************)
(* C11.  Every step that takes the enabled flag from false to true leaves  *)
(* the epoch set to the clock reading of that step, and no step taken      *)
(* while tracing is active changes the epoch.                              *)
(***************************************************************************)
C11_EpochSetOncePerActivation ==
    [][/\ (~g_trace_enabled /\ g_trace_enabled') =>
              (g_epoch_set' /\ g_epoch' = now)
       /\ g_trace_enabled => UNCHANGED epoch_vars]_vars

(***************************************************************************)
(* C12.  A terminate-and-stay-resident exit changes neither exec_depth nor *)
(* the enabled flag; after three nested loads in one activation window it  *)
(* leaves exec_depth at 3 and tracing active.                              *)
(***************************************************************************)
C12_TsrExitKeepsDepth ==
    [][last_event' = "TsrExit" =>
          UNCHANGED <<s_exec_depth, g_trace_enabled>>]_vars

\* Three nested loads, then the resident exit.
C12_Witness ==
    /\ last_event = "TsrExit"
    /\ Kinds(log) = <<"EXEC", "ACTIVATED", "EXEC", "EXEC">>
    /\ s_exec_depth = 3
    /\ g_trace_enabled

(***************************************************************************)
(* C13.  With instruction tracing on and sample rate N, the instruction    *)
(* events logged are exactly the 1st, (N+1)-th, (2N+1)-th, ... of the      *)
(* session; with N = 1 every event is logged.                              *)
(***************************************************************************)
\* The step is an instruction event that arrives with the category on.
SampledInstruction ==
    last_event' = "LogInstruction" /\ g_config.trace_instructions

\* The step appended the line of the instruction it reported.
InstructionLogged ==
    /\ Len(Appended) = 1
    /\ Appended[1].kind = "INSTR"
    /\ Appended[1].num = instr_events'

\* As claimed: the first event of every period is the one logged.
C13_LoggedFirstOfEveryN ==
    [][(SampledInstruction /\ g_config.instruction_sample_rate >= 1) =>
          (InstructionLogged <=>
              (instr_events' - 1) % g_config.instruction_sample_rate = 0)]_vars

\* As amended: the last event of every period is the one logged, the N-th,
\* 2N-th, 3N-th, ... since Init; with N <= 1 every event is logged.
C13_LoggedEveryNth ==
    [][SampledInstruction =>
          IF g_config.instruction_sample_rate > 1
              THEN /\ InstructionLogged <=>
                          instr_events' % g_config.instruction_sample_rate = 0
                   /\ ~InstructionLogged => log' = log
              ELSE InstructionLogged]_vars

\* Rate 3, six instructions: the third and the sixth are in the sink.
C13_Witness ==
    /\ g_config.trace_instructions
    /\ g_config.instruction_sample_rate = 3
    /\ instr_events = 6
    /\ {log[i].num : i \in LinesOf("INSTR")} = {3, 6}

(***************************************************************************)
(* C14.  The sampler is a modulo-N gate.  For N > 1 an instruction event   *)
(* increments the counter and is logged iff the counter has then reached   *)
(* N, and then the counter is reset to 0; so 0 <= counter < N between      *)
(* events and any N consecutive events have exactly one logged.  For       *)
(* N <= 1 every event is logged and the counter is left alone.             *)
(***************************************************************************)
C14_CounterInRange ==
    g_config.instruction_sample_rate > 1 =>
        (0 <= s_sample_counter /\
         s_sample_counter < g_config.instruction_sample_rate)

C14_OneInEveryN ==
    (g_config.trace_instructions /\ g_config.instruction_sample_rate > 1) =>
        \A first \in 1..(instr_events - g_config.instruction_sample_rate + 1) :
            Cardinality({i \in LinesOf("INSTR") :
                /\ log[i].num >= first
                /\ log[i].num < first + g_config.instruction_sample_rate}) = 1

C14_GateStep ==
    SampledInstruction =>
        IF g_config.instruction_sample_rate > 1
            THEN IF s_sample_counter + 1 = g_config.instruction_sample_rate
                     THEN InstructionLogged /\ s_sample_counter' = 0
                     ELSE /\ log' = log
                          /\ s_sample_counter' = s_sample_counter + 1
            ELSE InstructionLogged /\ UNCHANGED s_sample_counter

C14_ModuloGate ==
    /\ [](C14_CounterInRange /\ C14_OneInEveryN)
    /\ [][C14_GateStep]_vars

\* Rate 2, five instructions: the counter is mid-period, two lines logged.
C14_Witness ==
    /\ g_config.trace_instructions
    /\ g_config.instruction_sample_rate = 2
    /\ instr_events = 5
    /\ s_sample_counter = 1
    /\ Cardinality(LinesOf("INSTR")) = 2

(***************************************************************************)
(* C15.  Interrupt exclusion.  DEBUGTRACE_IsInterruptExcluded(n) is true   *)
(* iff the two-digit uppercase hexadecimal form of n equals, ignoring      *)
(* case, one of the comma-separated entries of exclude_interrupts (none    *)
(* when the list is empty); and an interrupt event for a number so         *)
(* excluded appends no line, whatever AH and AL are.                       *)
(***************************************************************************)
\* The comma-separated entries of a list, empty ones included.
ListEntries(list) ==
    { SubSeq(list, i, j) : <<i, j>> \in
        { <<i, j>> \in (1..(Len(list) + 1)) \X (0..Len(list)) :
            /\ j >= i - 1
            /\ i = 1 \/ list[i - 1] = ","
            /\ j = Len(list) \/ list[j + 1] = ","
            /\ \A k \in i..j : list[k] # "," } }

CasePairs ==
    { <<"a", "A">>, <<"b", "B">>, <<"c", "C">>,
      <<"d", "D">>, <<"e", "E">>, <<"f", "F">> }

EqualIgnoringCase(a, b) ==
    /\ Len(a) = Len(b)
    /\ \A k \in 1..Len(a) :
           \/ a[k] = b[k]
           \/ <<a[k], b[k]>> \in CasePairs
           \/ <<b[k], a[k]>> \in CasePairs

ListExcludes(list, int_num) ==
    /\ list # <<>>
    /\ \E entry \in ListEntries(list) : EqualIgnoringCase(entry, Hex2(int_num))

\* The list is loaded by Init and stays as it is for the session, so the
\* 256 numbers are compared once per session, where Init leaves it.
C15_ExclusionMatchesList ==
    last_event = "Init" =>
        \A int_num \in 0..255 :
            DEBUGTRACE_IsInterruptExcluded(g_config, int_num)
                <=> ListExcludes(g_config.exclude_interrupts, int_num)

C15_NoLineForExcluded ==
    \A i \in LinesOf("INT") :
        ~ListExcludes(g_config.exclude_interrupts, log[i].num)

C15_ExcludedEventAppendsNothing ==
    (/\ last_event' = "LogInterrupt"
     /\ ListExcludes(g_config.exclude_interrupts, int_event'.num))
    => log' = log

C15_InterruptExclusion ==
    /\ [](C15_ExclusionMatchesList /\ C15_NoLineForExcluded)
    /\ [][C15_ExcludedEventAppendsNothing]_vars

\* INT 0Ch was logged, then INT CCh arrived with AH=4Ch and was suppressed by
\* the entry "cC".
C15_Witness ==
    /\ last_event = "LogInterrupt"
    /\ int_event = [num |-> 204, ah |-> 76, al |-> 0]
    /\ g_config.trace_interrupts
    /\ g_config.exclude_interrupts = <<",", "c", "C">>
    /\ {log[i].num : i \in LinesOf("INT")} = {12}

(***************************************************************************)
(* C16.  Handle lifecycle.  A close event for handle h appends exactly one *)
(* FILE CLOSE line naming the filename the registry held for h when the    *)
(* event arrived, or the unknown sentinel when it held none, and then      *)
(* removes h and leaves every other handle's mapping as it was; a later    *)
(* lookup of h resolves to the unknown sentinel.                           *)
(***************************************************************************)
Unknown == "<unknown>"

\* The name the registry holds for a handle.
Registered(map, handle) ==
    IF handle \in DOMAIN map THEN map[handle] ELSE Unknown

CloseLogsThenForgets ==
    /\ Len(Appended) = 1
    /\ Appended[1].kind = "FILE_CLOSE"
    /\ Appended[1].handle = file_event'.handle
    /\ Appended[1].name = Registered(s_handle_map, file_event'.handle)
    /\ DOMAIN s_handle_map' = DOMAIN s_handle_map \ {file_event'.handle}
    /\ \A h \in DOMAIN s_handle_map' : s_handle_map'[h] = s_handle_map[h]
    /\ Registered(s_handle_map', file_event'.handle) = Unknown

\* As claimed: every close event.
C16_CloseLogsThenForgets ==
    [][last_event' = "LogFileClose" => CloseLogsThenForgets]_vars

\* As amended: every close event that arrives with trace_file_io on; with
\* it off the event appends nothing and the registry keeps the handle.
C16_CloseLogsThenForgetsWhenTraced ==
    [][last_event' = "LogFileClose" =>
          IF g_config.trace_file_io
              THEN CloseLogsThenForgets
              ELSE UNCHANGED <<log, s_handle_map>>]_vars

\* record(5, "A.DAT"), close(5), then a stray read of handle 5, while
\* handle 6 stays registered.
C16_Witness ==
    /\ Len(log) >= 2
    /\ log[Len(log) - 1].kind = "FILE_CLOSE"
    /\ log[Len(log) - 1].handle = 5
    /\ log[Len(log) - 1].name = "A.DAT"
    /\ log[Len(log)].kind = "FILE_READ"
    /\ log[Len(log)].handle = 5
    /\ log[Len(log)].name = Unknown
    /\ 6 \in DOMAIN s_handle_map

(***************************************************************************)
(* C17.  Registering a filename for a handle inside the valid range        *)
(* inserts or overwrites the mapping: a lookup of the handle right after   *)
(* the call returns the filename just supplied, never one left from an     *)
(* earlier open of the same handle.                                        *)
(***************************************************************************)
InRangeRegistration ==
    /\ last_event' = "RecordHandleOpen"
    /\ file_event'.handle < DOS_FILES

\* As claimed: every filename supplied.
C17_LookupReturnsSupplied ==
    [][InRangeRegistration =>
          Registered(s_handle_map', file_event'.handle) = file_event'.name]_vars

\* As amended: every non-empty filename; an empty one changes nothing.
C17_LookupReturnsSuppliedNonEmpty ==
    [][InRangeRegistration =>
          IF file_event'.name # ""
              THEN Registered(s_handle_map', file_event'.handle) =
                       file_event'.name
              ELSE UNCHANGED s_handle_map]_vars

\* Handle 5 was read as "A.DAT" and has now been registered as "B.DAT".
C17_Witness ==
    /\ last_event = "RecordHandleOpen"
    /\ file_event.handle = 5
    /\ file_event.name = "B.DAT"
    /\ Registered(s_handle_map, 5) = "B.DAT"
    /\ \E i \in LinesOf("FILE_READ") :
           log[i].handle = 5 /\ log[i].name = "A.DAT"

(***************************************************************************)
(* C18.  Registering a handle >= DOS_FILES changes nothing; every key of   *)
(* the registry is below DOS_FILES and the registry never holds more than  *)
(* DOS_FILES entries.                                                      *)
(***************************************************************************)
C18_RegistryBounded ==
    /\ \A h \in DOMAIN s_handle_map : h < DOS_FILES
    /\ Cardinality(DOMAIN s_handle_map) <= DOS_FILES

C18_OutOfRangeIgnored ==
    (/\ last_event' = "RecordHandleOpen"
     /\ file_event'.handle >= DOS_FILES)
    => UNCHANGED <<s_handle_map, s_pending_read, log, g_trace_enabled,
                   s_exec_depth, g_config, epoch_vars, sink_vars>>

C18_OutOfRangeHandles ==
    [](C18_RegistryBounded) /\ [][C18_OutOfRangeIgnored]_vars

\* The first handle past the range, registered next to a valid one.
C18_Witness ==
    /\ last_event = "RecordHandleOpen"
    /\ file_event.handle = DOS_FILES
    /\ file_event.name = "A.DAT"
    /\ DOMAIN s_handle_map = {5}

(***************************************************************************)
(* C19.  Read result.  With the pending-read slot inactive or holding      *)
(* another handle the event appends no line; with the slot active for the  *)
(* same handle it appends a FILE READ RESULT line with the actual byte     *)
(* count.  Either way the slot is inactive afterwards.                     *)
(***************************************************************************)
C19_ReadResult ==
    [][last_event' = "LogFileReadPost" =>
          /\ IF s_pending_read.active /\
                s_pending_read.handle = file_event'.handle
                 THEN /\ Len(Appended) >= 1
                      /\ Appended[1].kind = "FILE_READ_RESULT"
                      /\ Appended[1].handle = file_event'.handle
                      /\ Appended[1].num = file_event'.bytes
                 ELSE log' = log
          /\ ~s_pending_read'.active]_vars

\* A result of 0 bytes was logged for handle 5; a second result, of 3
\* bytes, followed without a request and left the sink as it was.
C19_Witness ==
    /\ last_event = "LogFileReadPost"
    /\ file_event.handle = 5
    /\ file_event.bytes = 3
    /\ Len(log) >= 1
    /\ log[Len(log)].kind = "FILE_READ_RESULT"
    /\ log[Len(log)].handle = 5
    /\ log[Len(log)].num = 0
    /\ ~s_pending_read.active

(***************************************************************************)
(* C20.  A matched read result is followed by a FILE DATA line of          *)
(* min(file_read_hex_dump_bytes, actual_bytes, 512) bytes; when that       *)
(* minimum is <= 0 the result line stands alone.                           *)
(***************************************************************************)
Min3(a, b, c) ==
    CHOOSE m \in {a, b, c} : m <= a /\ m <= b /\ m <= c

MatchedReadResult ==
    /\ last_event' = "LogFileReadPost"
    /\ s_pending_read.active
    /\ s_pending_read.handle = file_event'.handle

C20_HexDumpLength ==
    [][MatchedReadResult =>
          LET expected == Min3(g_config.file_read_hex_dump,
                               file_event'.bytes, 512)
          IN  IF expected <= 0
                  THEN Kinds(Appended) = <<"FILE_READ_RESULT">>
                  ELSE /\ Kinds(Appended) =
                              <<"FILE_READ_RESULT", "FILE_DATA">>
                       /\ Appended[2].bytes = expected
                       /\ Appended[2].num = expected]_vars

\* 600 bytes read with a dump size of 600: the dump stops at 512.
C20_Witness ==
    /\ last_event = "LogFileReadPost"
    /\ g_config.file_read_hex_dump = 600
    /\ file_event.bytes = 600
    /\ Len(log) >= 2
    /\ log[Len(log) - 1].kind = "FILE_READ_RESULT"
    /\ log[Len(log)].kind = "FILE_DATA"
    /\ log[Len(log)].bytes = 512

(***************************************************************************)
(* C21.  While the enabled flag is false, a call to DEBUGTRACE_LogInstruction,*)
(* LogInterrupt, LogFileCreate, LogFileOpen, LogFileClose, LogFileReadPre, *)
(* LogFileReadPost or LogVideoModeSwitch appends no line to the log.       *)
(***************************************************************************)
PerEventEntryPoints ==
    {"LogInstruction", "LogInterrupt", "LogFileCreate", "LogFileOpen",
     "LogFileClose", "LogFileReadPre", "LogFileReadPost",
     "LogVideoModeSwitch"}

C21_DisabledEntryPointsAppendNothing ==
    [][(~g_trace_enabled /\ last_event' \in PerEventEntryPoints) =>
          log' = log]_vars

(***************************************************************************)
(* C22.  Master switch.  In a session whose configuration, loaded at Init, *)
(* has enabled = false, tracing is never active and the log stays empty,   *)
(* whatever entry points are called.                                       *)
(***************************************************************************)
C22_MasterSwitch ==
    (host # "start" /\ ~g_config.enabled) =>
        (~g_trace_enabled /\ log = <<>>)

(***************************************************************************)
(* C23.  With enabled = true and auto_trace_on_exec = false, Init leaves   *)
(* the enabled flag true, the epoch set to the current time and exec_depth *)
(* at 0, and the session-start marker is the first line of the log.  With  *)
(* auto_trace_on_exec = true, Init leaves tracing disabled and appends no  *)
(* line.                                                                   *)
(***************************************************************************)
C23_InitActivation ==
    [][last_event' = "Init" =>
          /\ (g_config'.enabled /\ ~g_config'.auto_trace_on_exec) =>
                 /\ g_trace_enabled'
                 /\ g_epoch_set'
                 /\ g_epoch' = now
                 /\ s_exec_depth' = 0
                 /\ Kinds(log') = <<"STARTED">>
          /\ g_config'.auto_trace_on_exec =>
                 (~g_trace_enabled' /\ log' = log)]_vars

\* Init, called at clock reading 1, has just started the trace.
C23_Witness ==
    /\ last_event = "Init"
    /\ g_config.enabled
    /\ ~g_config.auto_trace_on_exec
    /\ g_trace_enabled
    /\ g_epoch_set
    /\ g_epoch = 1
    /\ s_exec_depth = 0
    /\ Kinds(log) = <<"STARTED">>

(***************************************************************************)
(* C24.  The termination that takes tracing from active to disabled leaves *)
(* the handle registry, the pending-read slot, the sink's handle and the   *)
(* system-ready flag as they were; no program load or termination changes  *)
(* the registry or the slot, so a handle recorded before the deactivation  *)
(* resolves to the same filename after it and after a later re-activation. *)
(***************************************************************************)
AutomaticDeactivation ==
    /\ last_event' = "OnProgramTerminate"
    /\ g_trace_enabled
    /\ ~g_trace_enabled'

C24_DeactivationFrame ==
    AutomaticDeactivation =>
        UNCHANGED <<s_handle_map, s_pending_read, g_log_fp, g_own_file,
                    g_debugtrace_system_ready>>

C24_HandlesSurviveTheCycle ==
    last_event' \in {"OnProgramTerminate", "LogExec"} =>
        /\ \A h \in DOMAIN s_handle_map :
               Registered(s_handle_map', h) = s_handle_map[h]
        /\ s_pending_read' = s_pending_read

C24_DeactivationKeepsFileState ==
    [][C24_DeactivationFrame /\ C24_HandlesSurviveTheCycle]_vars

\* Handle 5 was recorded and read in the first activation window; tracing
\* went off and is on again, and the handle still resolves and the read is
\* still pending.
C24_Witness ==
    /\ Kinds(log) = <<"EXEC", "ACTIVATED", "FILE_READ", "TERMINATED",
                      "DEACTIVATED", "EXEC", "ACTIVATED">>
    /\ log[3].name = "A.DAT"
    /\ g_trace_enabled
    /\ Registered(s_handle_map, 5) = "A.DAT"
    /\ s_pending_read.active
    /\ g_debugtrace_system_ready

(***************************************************************************)
(* C25.  Re-activation within a session.  In every configuration with      *)
(* enabled = true, once a termination has driven exec_depth to zero and    *)
(* turned tracing off, a program load that the activation gate permits     *)
(* turns it on again, with the epoch set to the time of the load and       *)
(* exec_depth = 1, without a new Init.                                     *)
(***************************************************************************)
\* Tracing is off and the latest marker in the log is the deactivation one.
DeactivatedByExit ==
    /\ ~g_trace_enabled
    /\ LinesOf("DEACTIVATED") # {}
    /\ Max(LinesOf("DEACTIVATED")) > Max(LinesOf("ACTIVATED") \cup {0})

\* The activation gate: with the interactive-only option set, the shell must
\* be at its prompt; otherwise the gate is open.
GatePermits ==
    g_config.trace_on_interactive_exec_only => shell_interactive

PermittedLoadAfterExit ==
    /\ g_config.enabled
    /\ DeactivatedByExit
    /\ last_event' = "LogExec"
    /\ GatePermits

Reactivated ==
    /\ g_trace_enabled'
    /\ g_epoch_set'
    /\ g_epoch' = now
    /\ s_exec_depth' = 1
    /\ Kinds(Appended) = <<"EXEC", "ACTIVATED">>

\* As claimed: in every configuration with enabled = true.
C25_ReactivatedByPermittedLoad ==
    [][PermittedLoadAfterExit => Reactivated]_vars

\* As amended: in the configurations with auto_trace_on_exec = true; with
\* auto_trace_on_exec = false the load changes nothing and tracing stays off.
C25_ReactivatedByPermittedLoadWhenAuto ==
    [][PermittedLoadAfterExit =>
          IF g_config.auto_trace_on_exec
              THEN Reactivated
              ELSE UNCHANGED <<g_trace_enabled, epoch_vars, s_exec_depth,
                               log>>]_vars

\* A program ran from clock reading 0 to 1; the next one was loaded at 2 and
\* opened a new window whose elapsed time starts at 0 again.
C25_Witness ==
    /\ last_event = "LogExec"
    /\ Kinds(log) = <<"EXEC", "ACTIVATED", "TERMINATED", "DEACTIVATED",
                      "EXEC", "ACTIVATED">>
    /\ log[3].t = 1
    /\ log[5].t = 0
    /\ g_trace_enabled
    /\ g_epoch = 2
    /\ s_exec_depth = 1

(***************************************************************************)
(* C26.  Shutdown of a session whose configuration has enabled = true,     *)
(* whether tracing is active or not at that moment, leaves the enabled     *)
(* flag false, exec_depth at 0, the system-ready flag false, the handle    *)
(* registry empty, the pending-read slot inactive and the owned sink file  *)
(* closed; a program load after it activates nothing and appends nothing.  *)
(***************************************************************************)
C26_ShutdownClears ==
    (last_event' = "Shutdown" /\ g_config.enabled) =>
        /\ ~g_trace_enabled'
        /\ s_exec_depth' = 0
        /\ ~g_debugtrace_system_ready'
        /\ s_handle_map' = EmptyHandleMap
        /\ ~s_pending_read'.active
        /\ g_own_file => (g_log_fp' = "null" /\ ~g_own_file')

C26_NoActivationAfterShutdown ==
    (host = "stopped" /\ g_config.enabled /\ last_event' = "LogExec") =>
        /\ ~g_trace_enabled'
        /\ log' = log
        /\ UNCHANGED <<s_exec_depth, epoch_vars>>

C26_ShutdownClearsEverything ==
    [][C26_ShutdownClears /\ C26_NoActivationAfterShutdown]_vars

\* Tracing was active, handle 5 registered and a read pending when Shutdown
\* came; the program load that followed left everything cleared.
C26_Witness ==
    /\ last_event = "LogExec"
    /\ host = "stopped"
    /\ g_config.enabled
    /\ Kinds(log) = <<"STARTED", "FILE_READ", "ENDED">>
    /\ log[2].name = "A.DAT"
    /\ log[3].sink = "file"
    /\ ~g_trace_enabled
    /\ ~g_debugtrace_system_ready
    /\ s_exec_depth = 0
    /\ s_handle_map = EmptyHandleMap
    /\ ~s_pending_read.active
    /\ g_log_fp = "null"

(***************************************************************************)
(* C27.  The log is append-only and ordered by event.  Every step leaves   *)
(* the lines already written where they are and appends, at the end, only  *)
(* lines of the entry point that was called; the instruction lines appear  *)
(* in the order the instructions were reported, whatever the sampler       *)
(* omitted.                                                                *)
(***************************************************************************)
\* The line kinds an entry point can write.
KindsOfEvent(event) ==
    CASE event = "Init"               -> {"STARTED"}
      [] event = "Shutdown"           -> {"ENDED"}
      [] event = "LogExec"            -> {"EXEC", "ACTIVATED"}
      [] event = "OnProgramTerminate" -> {"TERMINATED", "DEACTIVATED"}
      [] event = "LogInstruction"     -> {"INSTR"}
      [] event = "LogInterrupt"       -> {"INT"}
      [] event = "LogFileCreate"      -> {"FILE_CREATE"}
      [] event = "LogFileOpen"        -> {"FILE_OPEN"}
      [] event = "LogFileClose"       -> {"FILE_CLOSE"}
      [] event = "LogFileReadPre"     -> {"FILE_READ"}
      [] event = "LogFileReadPost"    -> {"FILE_READ_RESULT", "FILE_DATA"}
      [] event = "LogVideoModeSwitch" -> {"VIDEO_MODE"}
      [] OTHER                        -> {}

C27_AppendsAtTheEnd ==
    /\ Len(log') >= Len(log)
    /\ SubSeq(log', 1, Len(log)) = log
    /\ \A i \in 1..Len(Appended) :
           Appended[i].kind \in KindsOfEvent(last_event')

C27_InstructionsInOrder ==
    \A i \in LinesOf("INSTR"), j \in LinesOf("INSTR") :
        i < j => log[i].num < log[j].num

ClearBit15(m) == IF m >= 32768 THEN m - 32768 ELSE m

\* What the table says of a mode number.
TableDescription(m) ==
    IF \E k \in 1..Len(k_mode_table) : k_mode_table[k].mode = m
        THEN k_mode_table[CHOOSE k \in 1..Len(k_mode_table) :
                              k_mode_table[k].mode = m].description
        ELSE "unknown mode"

\* The table is static, so the 65536 modes are compared once, before the
\* session starts.
C28_LookupIgnoresBit15 ==
    last_event = "none" =>
        /\ \A m \in 0..65535 :
               lookup_mode_desc(m) = lookup_mode_desc(ClearBit15(m))
        /\ \A m \in 0..32767 : lookup_mode_desc(m) = TableDescription(m)
        /\ lookup_mode_desc(19) = "320x200 256-color VGA"
        /\ lookup_mode_desc(32787) = "320x200 256-color VGA"
        /\ lookup_mode_desc(127) = "unknown mode"
        /\ lookup_mode_desc(32895) = "unknown mode"

C28_BothSidesOfTheLine ==
    \A i \in LinesOf("VIDEO_MODE") :
        /\ log[i].old_desc = TableDescription(ClearBit15(log[i].handle))
        /\ log[i].new_desc = TableDescription(ClearBit15(log[i].num))

C28_VideoModeDescriptions ==
    C28_LookupIgnoresBit15 /\ C28_BothSidesOfTheLine

\* A switch from 8013h to 7Fh, then one from 807Fh to 13h.
C28_Witness ==
    /\ last_event = "LogVideoModeSwitch"
    /\ Kinds(log) = <<"STARTED", "VIDEO_MODE", "VIDEO_MODE">>
    /\ log[2].handle = 32787
    /\ log[2].old_desc = "320x200 256-color VGA"
    /\ log[2].num = 127
    /\ log[2].new_desc = "unknown mode"
    /\ log[3].handle = 32895
    /\ log[3].old_desc = "unknown mode"
    /\ log[3].num = 19
    /\ log[3].new_desc = "320x200 256-color VGA"

(***************************************************************************)
(* C29.  A read request with file-I/O tracing on leaves the pending-read   *)
(* slot holding exactly (active, handle, requested byte count, buffer      *)
(* segment:offset) of this request, whatever it held before, appends       *)
(* exactly one FILE READ line that names the registry's filename for the   *)
(* handle (or the unknown sentinel), and leaves the registry unchanged.    *)
(***************************************************************************)
C29_ReadRequest ==
    [][(last_event' = "LogFileReadPre" /\ g_config.trace_file_io) =>
          /\ s_pending_read' = [active    |-> TRUE,
                                handle    |-> file_event'.handle,
                                requested |-> file_event'.bytes,
                                ds_seg    |-> file_event'.seg,
                                dx_off    |-> file_event'.off]
          /\ Len(Appended) = 1
          /\ Appended[1].kind = "FILE_READ"
          /\ Appended[1].handle = file_event'.handle
          /\ Appended[1].num = file_event'.bytes
          /\ Appended[1].name =
                 Registered(s_handle_map, file_event'.handle)
          /\ UNCHANGED s_handle_map]_vars

\* A request of 1 byte on handle 5 was pending; a request of 512 bytes on
\* the unregistered handle 6, into 1000:0010, has replaced it.
C29_Witness ==
    /\ last_event = "LogFileReadPre"
    /\ Kinds(log) = <<"STARTED", "FILE_READ", "FILE_READ">>
    /\ log[2].handle = 5
    /\ log[2].name = "A.DAT"
    /\ log[2].num = 1
    /\ log[3].handle = 6
    /\ log[3].name = Unknown
    /\ log[3].num = 512
    /\ s_pending_read = [active |-> TRUE, handle |-> 6, requested |-> 512,
                         ds_seg |-> 4096, dx_off |-> 16]
    /\ DOMAIN s_handle_map = {5}

(***************************************************************************)
(* C30.  A logged instruction reads exactly 8 bytes, the i-th (i = 0..7)   *)
(* from physical address ((cs << 4) + ip + i) mod 0x100000: no address is  *)
(* ever >= 0x100000, also when the read straddles the 1 MiB boundary       *)
(* (FFFF:FFF8, F000:FFFC).                                                 *)
(***************************************************************************)
\* ((cs << 4) + ip + i) mod 0x100000
WrappedAddress(cs, ip, i) == ((cs * 16) + ip + i) % 1048576

EightWrappedReads(cs, ip, addrs) ==
    /\ Len(addrs) = 8
    /\ \A i \in 0..7 :
           /\ addrs[i + 1] = WrappedAddress(cs, ip, i)
           /\ addrs[i + 1] < 1048576

\* Segment and offset values around the places where a sum crosses 1 MiB or
\* 64 KiB.
CornerValues ==
    {0, 1, 15, 16, 4095, 4096, 32767, 32768, 61440, 65520, 65528, 65532,
     65535}

\* The fetch addresses are a function of CS:IP alone, so the sweeps are made
\* once, before the session starts: every IP in segments F000 and FFFF,
\* every segment at offset FFFC, and every pair of corner values.
C30_FetchAddressesOfAllPoints ==
    last_event = "none" =>
        /\ \A cs \in {61440, 65535}, ip \in 0..65535 :
               EightWrappedReads(cs, ip, OpcodeAddresses(cs, ip))
        /\ \A cs \in 0..65535 :
               EightWrappedReads(cs, 65532, OpcodeAddresses(cs, 65532))
        /\ \A cs \in CornerValues, ip \in CornerValues :
               EightWrappedReads(cs, ip, OpcodeAddresses(cs, ip))

C30_LoggedInstructionsReadEightBytes ==
    \A i \in LinesOf("INSTR") :
        EightWrappedReads(log[i].handle, log[i].num, log[i].addrs)

C30_OpcodeFetchWraps ==
    C30_FetchAddressesOfAllPoints /\ C30_LoggedInstructionsReadEightBytes

\* The instruction at F000:FFFC was logged: bytes 0..3 below 1 MiB, bytes
\* 4..7 from address 0 on; then the one at FFFF:FFF8, read from 0FFE8h on.
C30_Witness ==
    /\ last_event = "LogInstruction"
    /\ Kinds(log) = <<"STARTED", "INSTR", "INSTR">>
    /\ log[2].handle = 61440
    /\ log[2].num = 65532
    /\ log[2].addrs = <<1048572, 1048573, 1048574, 1048575, 0, 1, 2, 3>>
    /\ log[3].handle = 65535
    /\ log[3].num = 65528
    /\ log[3].addrs[1] = 65512
    /\ log[3].addrs[8] = 65519

(***************************************************************************)
(* C31.  A termination that is accepted (tracing is active when it comes)  *)
(* appends a PROGRAM TERMINATED line whose remaining depth is not negative *)
(* and is the value exec_depth has after the event, in every session,      *)
(* whether tracing was started by Init or by a program load.               *)
(***************************************************************************)
AcceptedTermination ==
    /\ last_event' = "OnProgramTerminate"
    /\ g_trace_enabled

C31_RemainingDepth ==
    [][AcceptedTermination =>
          /\ Len(Appended) >= 1
          /\ Appended[1].kind = "TERMINATED"
          /\ Appended[1].depth >= 0
          /\ Appended[1].depth = s_exec_depth']_vars

(***************************************************************************)
(* C32.  A FILE READ RESULT line is appended only by a read-result event   *)
(* whose handle is the handle of the latest read-request event, and only   *)
(* if no other read-result event has come since that request; a request    *)
(* yields at most one result line.  For the interleaved reads request(h1), *)
(* request(h2), result(h1), result(h2) with h1 # h2, neither result        *)
(* appends a line.                                                         *)
(***************************************************************************)
ResultLines(lines) ==
    {i \in 1..Len(lines) : lines[i].kind = "FILE_READ_RESULT"}

C32_ResultAnswersLatestRequest ==
    ResultLines(Appended) # {} =>
        /\ last_event' = "LogFileReadPost"
        /\ Cardinality(ResultLines(Appended)) = 1
        /\ \A i \in ResultLines(Appended) :
               Appended[i].handle = file_event'.handle
        /\ read_trail.handle = file_event'.handle
        /\ ~read_trail.answered

\* A result for another handle than the latest request's, or a second result
\* after one request, appends nothing.
C32_StrayResultAppendsNothing ==
    (/\ last_event' = "LogFileReadPost"
     /\ (read_trail.handle # file_event'.handle \/ read_trail.answered)) =>
        log' = log

\* In the log, every result line has the request line of its handle before
\* it, with no other request line and no other result line in between.
C32_OneResultPerRequestLine ==
    \A i \in ResultLines(log) :
        \E j \in 1..(i - 1) :
            /\ log[j].kind = "FILE_READ"
            /\ log[j].handle = log[i].handle
            /\ \A k \in (j + 1)..(i - 1) :
                   log[k].kind \notin {"FILE_READ", "FILE_READ_RESULT"}

C32_ResultMatchesLatestRequest ==
    /\ [][C32_ResultAnswersLatestRequest /\ C32_StrayResultAppendsNothing]_vars
    /\ [](C32_OneResultPerRequestLine)

\* Reads of handles 5 and 6 were requested in that order and their results
\* reported in that order: the log has the two request lines and no result
\* line.
C32_Witness ==
    /\ last_event = "LogFileReadPost"
    /\ file_event.handle = 6
    /\ read_trail = [handle |-> 6, answered |-> TRUE]
    /\ g_config.trace_file_io
    /\ Kinds(log) = <<"STARTED", "FILE_READ", "FILE_READ">>
    /\ log[2].handle = 5
    /\ log[3].handle = 6
    /\ ~s_pending_read.active

(***************************************************************************)
(* C33.  The activation and deactivation markers alternate in the log of a *)
(* session of program loads, terminations and live settings updates:       *)
(* between any two activation banners there is a deactivation marker, and  *)
(* the line just before every deactivation marker is a PROGRAM TERMINATED  *)
(* line.                                                                   *)
(***************************************************************************)
C33_DeactivationBetweenBanners ==
    \A i \in LinesOf("ACTIVATED"), j \in LinesOf("ACTIVATED") :
        i < j => \E k \in LinesOf("DEACTIVATED") : i < k /\ k < j

C33_DeactivationFollowsTermination ==
    \A k \in LinesOf("DEACTIVATED") :
        k > 1 /\ log[k - 1].kind = "TERMINATED"

C33_MarkersAlternate ==
    C33_DeactivationBetweenBanners /\ C33_DeactivationFollowsTermination

(***************************************************************************)
(* C34.  In an activation window that a program load opened, once as many  *)
(* programs have ended, by a normal termination or by a                    *)
(* terminate-and-stay-resident exit, as were loaded in the window, tracing *)
(* is disabled.                                                            *)
(***************************************************************************)
\* The programs loaded in the window that have not ended yet.
ProgramsStillLoaded ==
    LoadsInWindow - TerminationsInWindow - resident_exits

C34_DisabledOnceAllProgramsEnded ==
    (LastBanner > 0 /\ ProgramsStillLoaded = 0) => ~g_trace_enabled

(***************************************************************************)
(* C35.  After Shutdown of a session whose configuration has enabled =     *)
(* true, no call to an entry point (instruction, interrupt, file I/O,      *)
(* video mode, program load, program termination) appends a line to any    *)
(* sink; when the sink was a file, no line follows the session-end marker. *)
(***************************************************************************)
LoggingEntryPoints ==
    PerEventEntryPoints \cup {"LogExec", "OnProgramTerminate"}

C35_NoLineAfterShutdown ==
    (/\ host = "stopped"
     /\ g_config.enabled
     /\ last_event' \in LoggingEntryPoints) => log' = log

C35_EndMarkerIsLast ==
    \A i \in LinesOf("ENDED") : i = Len(log)

C35_SilentAfterShutdown ==
    [][C35_NoLineAfterShutdown]_vars /\ [](C35_EndMarkerIsLast)

====
